---- MODULE Spec2Model ----
(***************************************************************************)
(* uhubctl: hub discovery (usb_find_hubs) and the port-control engine of   *)
(* main, modelled from src/uhubctl.c.                                      *)
(*                                                                         *)
(* The USB stack is the environment: the device list, each device's        *)
(* descriptors, and the result of every open, status read, sysfs write and *)
(* control transfer are inputs.  What the program does with them is        *)
(* translated from the C source.                                           *)
(***************************************************************************)
EXTENDS Integers, Sequences, FiniteSets, TLC

(***************************************************************************)
(* Bounds of the model.                                                    *)
(***************************************************************************)
MaxDevs == 3
MaxPorts == 2
MaxRepeat == 2
MaxItems == 2
HubCap == 2

(***************************************************************************)
(* Program constants.                                                      *)
(***************************************************************************)
MAX_HUB_PORTS == 14
MAX_HUBS == 128
POWER_KEEP == -1
POWER_OFF == 0
POWER_ON == 1
POWER_CYCLE == 2
POWER_TOGGLE == 3
POWER_FLASH == 4
USB_PORT_STAT_POWER == 256
USB_SS_PORT_STAT_POWER == 512
USB_SS_BCD == 768
HUB_CHAR_LPSM == 3
HUB_CHAR_COMMON_LPSM == 0
HUB_CHAR_INDV_PORT_LPSM == 1
HUB_CHAR_NO_LPSM == 2
LIBUSB_ERROR_INVALID_PARAM == -2
LIBUSB_ERROR_ACCESS == -3
minlen == 9
SETTLE_MS == 150

ALL_HUB_PORTS == (2 ^ MAX_HUB_PORTS) - 1

(***************************************************************************)
(* C integer helpers.                                                      *)
(***************************************************************************)
RECURSIVE BitAnd(_, _)
BitAnd(a, b) ==
    IF a = 0 \/ b = 0 THEN 0
    ELSE (a % 2) * (b % 2) + 2 * BitAnd(a \div 2, b \div 2)

\* the low 16 bits of a (possibly negative) int, two's complement
Low16(x) == x % 65536

\* x & mask for a mask below 2^16
MaskBits(x, mask) == BitAnd(Low16(x), mask)

\* 1 << n
Shl1(n) == 2 ^ n

\* memcmp(p + a, q + b, n) == 0 on the zero-filled port_numbers arrays
Byte(p, idx) == IF idx >= 1 /\ idx <= Len(p) THEN p[idx] ELSE 0
MemEq(p, a, q, b, n) == \A x \in 1..n : Byte(p, a + x) = Byte(q, b + x)

(***************************************************************************)
(* get_hub_info: decode one device into a hub_info record.                 *)
(* A device of usb_devs is a record                                        *)
(*   cls       bDeviceClass is hub ("hub") or not ("other")                *)
(*   open_rc   result of libusb_open                                       *)
(*   len       result of the GET_DESCRIPTOR transfer for the hub descriptor*)
(*   bcd_usb, vendor, bus, pn (port path), nports (bNbrPorts)              *)
(*   chars     wHubCharacteristics[0]                                      *)
(*   bos_rc    result of libusb_get_bos_descriptor                         *)
(*   cid       container ID found in the BOS ("" when there is none)       *)
(*   serial    serial number string ("" when there is none)                *)
(*   descr     the description string get_device_description composes      *)
(*   descr_rc  result of get_device_description                            *)
(***************************************************************************)
RECURSIVE LocationTail(_, _)
LocationTail(pn, k) ==
    IF k > Len(pn) THEN ""
    ELSE (IF k = 1 THEN "-" ELSE ".") \o ToString(pn[k]) \o LocationTail(pn, k + 1)

Location(bus, pn) == ToString(bus) \o LocationTail(pn, 1)

ContainerId(dev, rpi4, rpi5, lpsm) ==
    LET found == IF dev.bos_rc = 0 THEN dev.cid ELSE ""
        ss == dev.bcd_usb >= USB_SS_BCD
        c4 == IF /\ dev.bos_rc = 0
                 /\ rpi4
                 /\ found = ""
                 /\ dev.vendor = "1d6b:0003"
                 /\ Len(dev.pn) = 0
                 /\ dev.nports = 4
                 /\ dev.bcd_usb = USB_SS_BCD
              THEN "5cf3ee30d5074925b001802d79434c30"
              ELSE found
    IN IF /\ rpi5
          /\ c4 = ""
          /\ lpsm = HUB_CHAR_INDV_PORT_LPSM
          /\ Len(dev.pn) = 0
          /\ \/ (dev.vendor = "1d6b:0002" /\ dev.nports = 2 /\ ~ss)
             \/ (dev.vendor = "1d6b:0003" /\ dev.nports = 1 /\ ss)
       THEN "Raspberry Pi 5 Fake Container Id"
       ELSE c4

\* the switching mode as the descriptor gives it
LpsmRaw(dev, rpi4) == BitAnd(dev.chars, HUB_CHAR_LPSM)

LpsmOf(dev, rpi4) ==
    LET raw == BitAnd(dev.chars, HUB_CHAR_LPSM)
        one == IF raw = HUB_CHAR_COMMON_LPSM /\ dev.nports = 1
               THEN HUB_CHAR_INDV_PORT_LPSM ELSE raw
    IN IF rpi4 /\ one = HUB_CHAR_COMMON_LPSM /\ dev.vendor = "2109:3431"
       THEN HUB_CHAR_INDV_PORT_LPSM ELSE one

\* the hub_info after memset(&info, 0, sizeof(info))
ZeroInfo ==
    [dev |-> 0, bcd_usb |-> 0, super_speed |-> 0, nports |-> 0, lpsm |-> 0,
     actionable |-> 0, container_id |-> "", vendor |-> "", location |-> "",
     bus |-> 0, port_numbers |-> << >>, pn_len |-> 0, serial |-> ""]

GetHubInfoRc(dev) ==
    IF dev.cls # "hub" THEN LIBUSB_ERROR_INVALID_PARAM
    ELSE IF dev.open_rc # 0 THEN dev.open_rc
    ELSE IF dev.len >= minlen THEN 0
    ELSE dev.len

GetHubInfo(n, dev, rpi4, rpi5) ==
    IF dev.cls = "hub" /\ dev.open_rc = 0 /\ dev.len >= minlen
    THEN LET lpsm == LpsmOf(dev, rpi4)
         IN [ZeroInfo EXCEPT
                !.dev = n,
                !.bcd_usb = dev.bcd_usb,
                !.super_speed = IF dev.bcd_usb >= USB_SS_BCD THEN 1 ELSE 0,
                !.nports = dev.nports,
                !.vendor = dev.vendor,
                !.bus = dev.bus,
                !.location = Location(dev.bus, dev.pn),
                !.port_numbers = dev.pn,
                !.pn_len = Len(dev.pn),
                !.container_id = ContainerId(dev, rpi4, rpi5, lpsm),
                !.lpsm = lpsm]
    ELSE ZeroInfo

(***************************************************************************)
(* State.                                                                  *)
(*   argv                            the options getopt has still to return*)
(*   usb_devs, is_rpi_4b, is_rpi_5   what the host presents                *)
(*   opt                             the option set left by getopt         *)
(*   hubs, hub_count, hub_phys_count the hub array of usb_find_hubs        *)
(*   perm_ok, i, rc                  locals of usb_find_hubs and main      *)
(*   k, port, is_on, should_be_on, repeat, devh                            *)
(*                                   locals of the action loop             *)
(*   pc, exit_code                   position in main, process exit status *)
(* History of the I/O the program has performed:                           *)
(*   lastEv      the port transfer or sleep performed by the last step     *)
(*   gotStatus   hubs that have received a GET_STATUS                      *)
(*   onSeen      hubs to which an on request has been issued               *)
(*   offSeen     hubs to which an off request has been issued              *)
(*   seen        per hub and port, the power state read in this phase      *)
(*               ("nohandle" for a hub whose open failed)                  *)
(*   req         per hub and port, the request issued in this phase        *)
(*   nDelay      number of inter-phase delay sleeps so far                 *)
(*   unsettled   SuperSpeed hubs whose off phase ended without 150 ms sleep*)
(*   reqlog      transfers and sleeps of the current set_port_status call  *)
(*   xferFailed  some power control transfer has returned a negative result*)
(*   handles     the most handles to one hub that were open at one time    *)
(*               since the last moment at which none was open              *)
(*   speed       get_port_speed's arguments port_status and super_speed,   *)
(*               and its results speed_str and speed_bps; speed_bps is held*)
(*               in units of 1000 bit/s                                    *)
(***************************************************************************)
VARIABLES argv, usb_devs, is_rpi_4b, is_rpi_5, opt,
          hubs, hub_count, hub_phys_count, perm_ok, i, rc,
          k, port, is_on, should_be_on, repeat, devh,
          pc, exit_code,
          lastEv, gotStatus, onSeen, offSeen, seen, req, nDelay, unsettled, reqlog,
          xferFailed, handles, speed

envVars == <<argv, usb_devs, is_rpi_4b, is_rpi_5>>
findVars == <<hubs, hub_count, hub_phys_count, perm_ok>>
loopVars == <<k, port, is_on, should_be_on, repeat, devh>>
sumVars == <<gotStatus, onSeen, offSeen, seen, req, nDelay, unsettled, reqlog, xferFailed,
             handles, speed>>
vars == <<argv, usb_devs, is_rpi_4b, is_rpi_5, opt,
          hubs, hub_count, hub_phys_count, perm_ok, i, rc,
          k, port, is_on, should_be_on, repeat, devh,
          pc, exit_code,
          lastEv, gotStatus, onSeen, offSeen, seen, req, nDelay, unsettled, reqlog,
          xferFailed, handles, speed>>

NoEv == [ev |-> "none", hub |-> 0, port |-> 0, val |-> 0]
Ev(e, h, p, v) == [ev |-> e, hub |-> h, port |-> p, val |-> v]

\* get_port_speed not yet called
NoSpeed == [port_status |-> 0, super_speed |-> FALSE, speed_str |-> "", speed_bps |-> 0]

\* the per-phase records, before any port of the phase is visited
NoneSeen == [h \in 1..MaxDevs |-> [p \in 1..MaxPorts |-> "unread"]]
NoneReq == [h \in 1..MaxDevs |-> [p \in 1..MaxPorts |-> "none"]]

(***************************************************************************)
(* The state main is in once the options are parsed and the device list is *)
(* read, for a given choice of host and options.                           *)
(***************************************************************************)
StartWith(args, devLists, rpi4s, rpi5s, opts, at, speeds) ==
    /\ argv \in args
    /\ usb_devs \in devLists
    /\ is_rpi_4b \in rpi4s
    /\ is_rpi_5 \in rpi5s
    /\ opt \in opts
    /\ hubs = << >>
    /\ hub_count = 0
    /\ hub_phys_count = 0
    /\ perm_ok = 1
    /\ i = 1
    /\ rc = 0
    /\ k = 0
    /\ port = 0
    /\ is_on = FALSE
    /\ should_be_on = FALSE
    /\ repeat = 0
    /\ devh = FALSE
    /\ pc = at
    /\ exit_code = -1
    /\ lastEv = NoEv
    /\ gotStatus = {}
    /\ onSeen = {}
    /\ offSeen = {}
    /\ seen = NoneSeen
    /\ req = NoneReq
    /\ nDelay = 0
    /\ unsettled = {}
    /\ reqlog = << >>
    /\ xferFailed = FALSE
    /\ handles = 0
    /\ speed \in speeds

StartState(args, devLists, rpi4s, rpi5s, opts, at) ==
    StartWith(args, devLists, rpi4s, rpi5s, opts, at, {NoSpeed})

InitWith(devLists, rpi4s, rpi5s, opts) ==
    StartState({<< >>}, devLists, rpi4s, rpi5s, opts, "scan")

(***************************************************************************)
(* usb_find_hubs, first loop: one device of usb_devs per step.             *)
(***************************************************************************)
\* the filters of the scan loop applied to a decoded hub
Filtered(info) ==
    LET a1 == IF opt.location # "" /\ opt.location # info.location THEN 0
              ELSE info.actionable
        a2 == IF opt.level > 0 /\ opt.level # info.pn_len + 1 THEN 0 ELSE a1
    IN [info EXCEPT !.actionable = a2]

\* a scan that keeps every decoded hub
QualifiesAny(info) == TRUE

\* whether the scan keeps a decoded hub (the power switching mode test)
Qualifies(info) == info.lpsm = HUB_CHAR_INDV_PORT_LPSM \/ opt.force

\* strstr(s, t) != NULL
StrStr(s, t) == \E n \in 0..(Len(s) - Len(t)) : SubSeq(s, n + 1, n + Len(t)) = t

\* udev sits on a port of the hub: same bus, one level deeper, the hub's path as prefix
ChildOf(udev, info) ==
    /\ udev.bus = info.bus
    /\ Len(udev.pn) = info.pn_len + 1
    /\ MemEq(info.port_numbers, 0, udev.pn, 0, info.pn_len)

\* the search over usb_devs from position n on: the port of the child at which the
\* loop stops with a match, 0 when it ends or stops without one
RECURSIVE SearchFrom(_, _, _, _)
SearchFrom(devs, info, search, n) ==
    IF n > Len(devs) THEN 0
    ELSE IF ~ChildOf(devs[n], info) THEN SearchFrom(devs, info, search, n + 1)
    ELSE IF devs[n].descr_rc # 0 THEN 0
    ELSE IF StrStr(devs[n].descr, search) THEN devs[n].pn[Len(devs[n].pn)]
    ELSE SearchFrom(devs, info, search, n + 1)

\* the port mask left by a match on port c: the new mask is that bit alone
NarrowedTo(ports, c) == Shl1(c - 1)

\* opt_ports &= 1 << (c - 1)
Narrowed(ports, c) == BitAnd(ports, Shl1(c - 1))

\* hub_count as the test after the memcpy reads it.  A copy into the array leaves
\* it alone; a copy at index cap lies outside hubs[cap] and may overwrite the
\* variables stored behind the array, hub_count among them.
CountAfterCopy(count, cap) == IF count < cap THEN {count} ELSE 0..count

\* one pass of the scan loop of usb_find_hubs, the hub array holding cap records
ScanDeviceCap(cap) ==
    /\ pc = "scan"
    /\ i <= Len(usb_devs)
    /\ LET dev == usb_devs[i]
           decoded == [GetHubInfo(i, dev, is_rpi_4b, is_rpi_5) EXCEPT !.serial = dev.serial]
           c == IF opt.search # << >> THEN SearchFrom(usb_devs, decoded, opt.search, 1) ELSE 0
           info == [decoded EXCEPT !.actionable = IF opt.search # << >> /\ c = 0 THEN 0 ELSE 1]
       IN IF dev.cls # "hub"
          THEN /\ i' = i + 1
               /\ UNCHANGED <<pc, hubs, hub_count, perm_ok, opt>>
          ELSE IF GetHubInfoRc(dev) # 0
          THEN /\ perm_ok' = 0
               /\ i' = i + 1
               /\ UNCHANGED <<pc, hubs, hub_count, opt>>
          ELSE IF ~Qualifies(decoded)
          THEN /\ i' = i + 1
               /\ UNCHANGED <<pc, hubs, hub_count, perm_ok, opt>>
          ELSE /\ hubs' = Append(SubSeq(hubs, 1, hub_count), Filtered(info))
               /\ opt' = IF c # 0 THEN [opt EXCEPT !.ports = Narrowed(opt.ports, c)] ELSE opt
               /\ \E count \in CountAfterCopy(hub_count, cap) :
                     IF count < cap
                     THEN /\ hub_count' = count + 1
                          /\ i' = i + 1
                          /\ pc' = pc
                     ELSE /\ hub_count' = count
                          /\ i' = 1
                          /\ pc' = IF opt.exact THEN "count" ELSE "pair"
               /\ UNCHANGED perm_ok
    /\ lastEv' = NoEv
    /\ UNCHANGED <<envVars, hub_phys_count, rc, loopVars, exit_code, sumVars>>

ScanDevice == ScanDeviceCap(MAX_HUBS)

ScanEnd ==
    /\ pc = "scan"
    /\ i > Len(usb_devs)
    /\ i' = 1
    /\ pc' = IF opt.exact THEN "count" ELSE "pair"
    /\ lastEv' = NoEv
    /\ UNCHANGED <<envVars, opt, findVars, rc, loopVars, exit_code, sumVars>>

(***************************************************************************)
(* usb_find_hubs, USB2/3 duality: the inner search for the dual of hub a.  *)
(***************************************************************************)
\* hub b passes the tests that make it a candidate dual of hub a
Candidate(hs, a, b) ==
    /\ a # b
    /\ hs[a].super_speed # hs[b].super_speed
    /\ hs[b].container_id # ""
    /\ hs[a].container_id = hs[b].container_id
    /\ (hs[a].nports # hs[b].nports => hs[a].nports + hs[b].nports <= 3)
    /\ ~(hs[a].serial # "" /\ hs[b].serial # "" /\ hs[a].serial # hs[b].serial)

\* a score that ranks every candidate alike
ScoreFlat(hs, a, b, rpi4) == 1

\* the score candidate b reaches for hub a
Score(hs, a, b, rpi4) ==
    LET p1 == hs[a].port_numbers
        p2 == hs[b].port_numbers
        l1 == hs[a].pn_len
        l2 == hs[b].pn_len
        s1 == hs[a].super_speed
        s2 == hs[b].super_speed
        t2 == IF l1 >= 1 /\ l1 = l2 /\ MemEq(p1, 1, p2, 1, l1 - 1) THEN 2 ELSE 1
        t3 == IF rpi4 /\ l1 + s1 = l2 + s2 /\ l1 >= s2 /\ MemEq(p1, s2, p2, s1, l1 - s2)
              THEN 3 ELSE t2
        t4 == IF l1 = l2 /\ MemEq(p1, 0, p2, 0, l1) THEN 4 ELSE t3
    IN IF l1 = l2 /\ MemEq(p1, 0, p2, 0, l1) /\ hs[a].bus - s1 = hs[b].bus - s2
       THEN 5 ELSE t4

\* a candidate replaces the best so far when it scores as much
NotWorse(best_score, score) == best_score <= score

\* if (best_score < score): a candidate replaces the best so far only when it scores more
Better(best_score, score) == best_score < score

\* the loop over j, carrying best_match and best_score
RECURSIVE BestFrom(_, _, _, _, _, _)
BestFrom(hs, n, a, j, best, rpi4) ==
    IF j > n THEN best
    ELSE IF Candidate(hs, a, j) /\ Better(best.score, Score(hs, a, j, rpi4))
    THEN BestFrom(hs, n, a, j + 1, [match |-> j, score |-> Score(hs, a, j, rpi4)], rpi4)
    ELSE BestFrom(hs, n, a, j + 1, best, rpi4)

BestMatch(hs, n, a, rpi4) == BestFrom(hs, n, a, 1, [match |-> -1, score |-> -1], rpi4).match

\* a marking that overwrites the flag of the best match
MarkAlways(hs, b) == [hs EXCEPT ![b].actionable = 2]

\* if (!hubs[best_match].actionable) hubs[best_match].actionable = 2
MarkDual(hs, b) == IF hs[b].actionable = 0 THEN [hs EXCEPT ![b].actionable = 2] ELSE hs

\* a pairing pass that marks nothing
PairNone(hs, n, a, rpi4) == hs

\* the body of the loop over i: hub a marks its dual
PairOne(hs, n, a, rpi4) ==
    IF hs[a].actionable # 1 \/ hs[a].container_id = "" THEN hs
    ELSE LET b == BestMatch(hs, n, a, rpi4)
         IN IF b >= 1 THEN MarkDual(hs, b) ELSE hs

PairHub ==
    /\ pc = "pair"
    /\ IF i <= hub_count
       THEN /\ hubs' = PairOne(hubs, hub_count, i, is_rpi_4b)
            /\ i' = i + 1
            /\ pc' = pc
       ELSE /\ i' = 1
            /\ pc' = "count"
            /\ hubs' = hubs
    /\ lastEv' = NoEv
    /\ UNCHANGED <<envVars, opt, hub_count, hub_phys_count, perm_ok, rc, loopVars,
                   exit_code, sumVars>>

(***************************************************************************)
(* usb_find_hubs, the physical hub count and the return value.             *)
(***************************************************************************)
\* a count of every actionable hub, whatever its speed
RECURSIVE CountActionable(_, _, _)
CountActionable(hs, n, exact) ==
    IF n = 0 THEN 0
    ELSE CountActionable(hs, n - 1, exact) + (IF hs[n].actionable # 0 THEN 1 ELSE 0)

RECURSIVE CountPhys(_, _, _)
CountPhys(hs, n, exact) ==
    IF n = 0 THEN 0
    ELSE CountPhys(hs, n - 1, exact)
         + (IF hs[n].actionable # 0 /\ (hs[n].super_speed = 0 \/ exact) THEN 1 ELSE 0)

\* a permission fault alone makes discovery fail
DeniedOnFault(ok, phys) == ok = 0

\* discovery fails for want of permission: a fault was met and no physical hub is left
PermissionDenied(ok, phys) == ok = 0 /\ phys = 0

FindCount ==
    /\ pc = "count"
    /\ hub_phys_count' = CountPhys(hubs, hub_count, opt.exact)
    /\ rc' = IF PermissionDenied(perm_ok, hub_phys_count')
             THEN LIBUSB_ERROR_ACCESS ELSE hub_phys_count'
    /\ pc' = "found"
    /\ lastEv' = NoEv
    /\ UNCHANGED <<envVars, opt, hubs, hub_count, perm_ok, i, loopVars, exit_code, sumVars>>

(***************************************************************************)
(* main, after usb_find_hubs returns.                                      *)
(***************************************************************************)
\* a refusal that tolerates two physical hubs
RefusesAboveTwo(phys, action) == phys > 2 /\ action # POWER_KEEP

\* more than one physical hub and a writing action: main refuses
Refuses(phys, action) == phys > 1 /\ action # POWER_KEEP

\* only an error return of discovery ends the run
FailedOnly(r) == r < 0

\* if (rc <= 0): discovery found no physical hub, or failed
NoneFound(r) == r <= 0

MainCheck ==
    /\ pc = "found"
    /\ IF NoneFound(rc)
       THEN /\ exit_code' = 1
            /\ pc' = "done"
            /\ UNCHANGED <<i, k>>
       ELSE IF Refuses(hub_phys_count, opt.action)
       THEN /\ exit_code' = 1
            /\ pc' = "done"
            /\ UNCHANGED <<i, k>>
       ELSE IF opt.action = POWER_KEEP
       THEN /\ pc' = "status"
            /\ i' = 1
            /\ UNCHANGED <<exit_code, k>>
       ELSE /\ pc' = "phase"
            /\ k' = 0
            /\ UNCHANGED <<exit_code, i>>
    /\ rc' = IF NoneFound(rc) THEN 1 ELSE rc
    /\ lastEv' = NoEv
    /\ UNCHANGED <<envVars, opt, findVars, port, is_on, should_be_on,
                   repeat, devh, sumVars>>

(***************************************************************************)
(* print_port_status / create_hub_json: the status reads of one hub.       *)
(***************************************************************************)
\* bit (p-1) of a port bitmask
HasPort(mask, p) == BitAnd(mask, Shl1(p - 1)) # 0

\* the ports a status listing of the hub visits
ListedPorts(hub, portmask) ==
    {p \in 1..hub.nports : ~(portmask > 0 /\ ~HasPort(portmask, p))}

Min(S) == CHOOSE x \in S : \A y \in S : x <= y

\* the listing reads the first listed port when its own open succeeds
ListingEv(h, opened) ==
    IF opened /\ ListedPorts(hubs[h], opt.ports) # {}
    THEN Ev("GET_STATUS", h, Min(ListedPorts(hubs[h], opt.ports)), 0)
    ELSE NoEv

\* print_port_status opens a handle of its own, whether or not main holds devh,
\* and closes it before it returns
Listing(h, opened) ==
    /\ lastEv' = ListingEv(h, opened)
    /\ handles' = (IF devh THEN 1 ELSE 0) + (IF opened THEN 1 ELSE 0)
    /\ gotStatus' = IF ListingEv(h, opened) # NoEv THEN gotStatus \cup {h} ELSE gotStatus

\* a loop that visits the primary hubs only
SkipsUnlessPrimary(hub) == hub.actionable # 1

\* the hubs the loops over the hub array pass over
SkipsHub(hub) == hub.actionable = 0

\* the status-only run (no action given)
StatusHub ==
    /\ pc = "status"
    /\ IF i > hub_count
       THEN /\ rc' = 0
            /\ exit_code' = 0
            /\ pc' = "done"
            /\ UNCHANGED <<i, lastEv, gotStatus, handles>>
       ELSE IF SkipsHub(hubs[i])
       THEN /\ i' = i + 1
            /\ lastEv' = NoEv
            /\ UNCHANGED <<rc, exit_code, pc, gotStatus, handles>>
       ELSE /\ \E opened \in BOOLEAN : Listing(i, opened)
            /\ i' = i + 1
            /\ UNCHANGED <<rc, exit_code, pc>>
    /\ UNCHANGED <<envVars, opt, findVars, loopVars, onSeen, offSeen, seen, req,
                   nDelay, unsettled, reqlog>>
    /\ UNCHANGED <<xferFailed, speed>>

(***************************************************************************)
(* main, the action loop.                                                  *)
(***************************************************************************)
\* a phase skip that lets toggle run both phases
SkipPhaseNoToggle(kk, action) ==
    \/ kk = 0 /\ action = POWER_ON
    \/ kk = 1 /\ action = POWER_OFF

\* the phases the loop over k skips
SkipPhase(kk, action) ==
    \/ kk = 0 /\ action = POWER_ON
    \/ kk = 1 /\ action = POWER_OFF
    \/ kk = 1 /\ action = POWER_TOGGLE

PhaseHead ==
    /\ pc = "phase"
    /\ IF k >= 2
       THEN /\ rc' = 0
            /\ exit_code' = 0
            /\ pc' = "done"
            /\ UNCHANGED <<k, i, seen, req>>
       ELSE IF SkipPhase(k, opt.action)
       THEN /\ k' = k + 1
            /\ UNCHANGED <<rc, exit_code, pc, i, seen, req>>
       ELSE /\ i' = 1
            /\ pc' = "hub"
            /\ seen' = NoneSeen
            /\ req' = NoneReq
            /\ UNCHANGED <<rc, exit_code, k>>
    /\ lastEv' = NoEv
    /\ UNCHANGED <<envVars, opt, findVars, port, is_on, should_be_on,
                   repeat, devh, gotStatus, onSeen, offSeen, nDelay, unsettled, reqlog>>
    /\ UNCHANGED <<xferFailed, handles, speed>>

HubHead ==
    /\ pc = "hub"
    /\ IF i > hub_count
       THEN pc' = "delay" /\ i' = i
       ELSE IF SkipsHub(hubs[i])
       THEN pc' = pc /\ i' = i + 1
       ELSE pc' = (IF opt.json THEN "open" ELSE "print1") /\ i' = i
    /\ lastEv' = NoEv
    /\ UNCHANGED <<envVars, opt, findVars, rc, loopVars, exit_code, sumVars>>

\* "Current status for hub": the listing before the hub is opened
PrintBefore ==
    /\ pc = "print1"
    /\ \E opened \in BOOLEAN : Listing(i, opened)
    /\ pc' = "open"
    /\ UNCHANGED <<envVars, opt, findVars, i, rc, loopVars, exit_code, onSeen, offSeen,
                   seen, req, nDelay, unsettled, reqlog>>
    /\ UNCHANGED <<xferFailed, speed>>

\* what libusb_open and a control transfer may return: success or an error code
OpenResults == {0, LIBUSB_ERROR_ACCESS}
TransferResults == {0, -1}

\* a target that turns on in the first phase whatever the action
TargetOnFirst(kk, action) == kk # 1

\* should_be_on at the start of a hub's phase
Target(kk, action) == IF action = POWER_FLASH THEN kk # 1 ELSE kk = 1

OpenHub ==
    /\ pc = "open"
    /\ \E r \in OpenResults :
         /\ rc' = r
         /\ devh' = (r = 0)
         /\ handles' = IF r = 0 THEN 1 ELSE 0
         /\ IF r = 0
            THEN /\ should_be_on' = Target(k, opt.action)
                 /\ port' = 1
                 /\ pc' = "port"
                 /\ seen' = seen
            ELSE /\ pc' = "close"
                 /\ seen' = [seen EXCEPT ![i] = [p \in 1..MaxPorts |-> "nohandle"]]
                 /\ UNCHANGED <<should_be_on, port>>
    /\ lastEv' = NoEv
    /\ UNCHANGED <<envVars, opt, findVars, i, k, is_on, repeat, exit_code,
                   gotStatus, onSeen, offSeen, req, nDelay, unsettled, reqlog>>
    /\ UNCHANGED <<xferFailed, speed>>

\* the status words a GET_STATUS may yield, and a failed read
StatusWords == {0, USB_PORT_STAT_POWER, USB_SS_PORT_STAT_POWER, -1}

PowerMask(hub) == IF hub.super_speed # 0 THEN USB_SS_PORT_STAT_POWER ELSE USB_PORT_STAT_POWER

\* a power state that counts a failed read as off
IsOnIfRead(hub, status) == status >= 0 /\ MaskBits(status, PowerMask(hub)) # 0

\* int is_on = (port_status & power_mask) != 0
IsOn(hub, status) == MaskBits(status, PowerMask(hub)) # 0

\* ((1 << nports) - 1) & opt_ports
PortsOf(hub, optports) == BitAnd(Shl1(hub.nports) - 1, optports)

\* a request for every port that was read
NeedsAlways(on, target) == TRUE

\* whether a transition is requested for the port just read
NeedsChange(on, target) == on # target

\* one iteration of the loop over the ports of the open hub
PortStep ==
    /\ pc = "port"
    /\ IF port > hubs[i].nports
       THEN /\ pc' = "endports"
            /\ lastEv' = NoEv
            /\ UNCHANGED <<port, is_on, should_be_on, gotStatus, seen>>
       ELSE IF ~HasPort(PortsOf(hubs[i], opt.ports), port)
       THEN /\ port' = port + 1
            /\ lastEv' = NoEv
            /\ UNCHANGED <<pc, is_on, should_be_on, gotStatus, seen>>
       ELSE \E port_status \in StatusWords :
            LET on == IsOn(hubs[i], port_status)
                target == IF opt.action = POWER_TOGGLE THEN ~on ELSE should_be_on
            IN /\ should_be_on' = target
               /\ lastEv' = Ev("GET_STATUS", i, port, port_status)
               /\ gotStatus' = gotStatus \cup {i}
               /\ seen' = [seen EXCEPT ![i][port] = IF on THEN "on" ELSE "off"]
               /\ IF NeedsChange(on, target)
                  THEN pc' = "set" /\ port' = port /\ is_on' = on
                  ELSE pc' = pc /\ port' = port + 1 /\ is_on' = FALSE
    /\ UNCHANGED <<envVars, opt, findVars, i, rc, k, repeat, devh, exit_code,
                   onSeen, offSeen, req, nDelay, unsettled, reqlog>>
    /\ UNCHANGED <<xferFailed, handles, speed>>

(***************************************************************************)
(* set_port_status: the sysfs attempt, then set_port_status_libusb.        *)
(***************************************************************************)
\* sleeps of at least SETTLE_MS let every hub settle
Settled(ms, u) == IF ms >= SETTLE_MS THEN {} ELSE u

\* a repeat count that does not look at the direction
RepeatAlways(on, optrepeat) == optrepeat

\* a repeat count of at least one
AtLeastOnce(on, optrepeat) == IF on \/ optrepeat < 1 THEN 1 ELSE optrepeat

\* int repeat = on ? 1 : opt_repeat
RepeatFor(on, optrepeat) == IF on THEN 1 ELSE optrepeat

\* a port control that never tries sysfs
TriesNever(nosysfs) == FALSE

\* if (!opt_nosysfs): set_port_status_linux is tried first
TriesSysfs(nosysfs) == ~nosysfs

\* set_port_status is entered: the request is issued, sysfs is tried first.
\* SYSFS_FAIL stands for every way set_port_status_linux returns non-zero: the
\* configuration cannot be read, the file cannot be opened, the write fails.
SetPortStatus ==
    /\ pc = "set"
    /\ req' = [req EXCEPT ![i][port] = IF should_be_on THEN "on" ELSE "off"]
    /\ onSeen' = IF should_be_on THEN onSeen \cup {i} ELSE onSeen
    /\ offSeen' = IF should_be_on THEN offSeen ELSE offSeen \cup {i}
    /\ IF TriesSysfs(opt.nosysfs)
       THEN \E ok \in BOOLEAN :
            /\ lastEv' = Ev(IF ok THEN "SYSFS_WRITE" ELSE "SYSFS_FAIL", i, port,
                            IF should_be_on THEN 0 ELSE 1)
            /\ reqlog' = <<IF ok THEN "SYSFS_WRITE" ELSE "SYSFS_FAIL">>
            /\ IF ok
               THEN /\ rc' = 0
                    /\ pc' = "event"
                    /\ repeat' = 0
               ELSE /\ rc' = 0
                    /\ pc' = "libusb"
                    /\ repeat' = RepeatFor(should_be_on, opt.repeat)
       ELSE /\ lastEv' = NoEv
            /\ reqlog' = << >>
            /\ rc' = 0
            /\ pc' = "libusb"
            /\ repeat' = RepeatFor(should_be_on, opt.repeat)
    /\ UNCHANGED <<envVars, opt, findVars, i, k, port, is_on, should_be_on,
                   devh, exit_code, gotStatus, seen, nDelay, unsettled>>
    /\ UNCHANGED <<xferFailed, handles, speed>>

\* whether the loop sleeps after a transfer, given the count left
SleepsAfter(left) == left > 0

\* while (repeat-- > 0): one control transfer
LibusbXfer ==
    /\ pc = "libusb"
    /\ IF repeat > 0
       THEN \E r \in TransferResults :
            /\ rc' = r
            /\ repeat' = repeat - 1
            /\ lastEv' = Ev(IF should_be_on THEN "SET_FEATURE" ELSE "CLEAR_FEATURE", i, port, 0)
            /\ reqlog' = Append(reqlog, IF should_be_on THEN "SET_FEATURE" ELSE "CLEAR_FEATURE")
            /\ pc' = IF SleepsAfter(repeat') THEN "wait" ELSE "event"
            /\ xferFailed' = (xferFailed \/ r < 0)
            /\ handles' = handles
            /\ speed' = speed
       ELSE /\ pc' = "event"
            /\ repeat' = 0
            /\ lastEv' = NoEv
            /\ UNCHANGED <<rc, reqlog, xferFailed, handles, speed>>
    /\ UNCHANGED <<envVars, opt, findVars, i, k, port, is_on, should_be_on,
                   devh, exit_code, gotStatus, onSeen, offSeen, seen, req, nDelay, unsettled>>

\* sleep_ms(opt_wait) between two attempts
LibusbWait ==
    /\ pc = "wait"
    /\ lastEv' = Ev("SLEEP", 0, 0, opt.wait)
    /\ reqlog' = Append(reqlog, "SLEEP")
    /\ unsettled' = Settled(opt.wait, unsettled)
    /\ pc' = "libusb"
    /\ UNCHANGED <<envVars, opt, findVars, i, rc, loopVars, exit_code, gotStatus, onSeen,
                   offSeen, seen, req, nDelay>>
    /\ UNCHANGED <<xferFailed, handles, speed>>

\* a port loop that stops at the first failed request
ContinuesIfOk(r) == r >= 0

\* the port loop goes on whatever set_port_status returned
ContinuesAfter(r) == TRUE

\* whether main prints a power_change event for the request that returned r
EmitsEvent(json, r) == json /\ r >= 0

\* back in main: the power_change event (val is its success field), then the next port
AfterSet ==
    /\ pc = "event"
    /\ port' = port + 1
    /\ is_on' = FALSE
    /\ reqlog' = << >>
    /\ pc' = IF ContinuesAfter(rc) THEN "port" ELSE "endports"
    /\ lastEv' = IF EmitsEvent(opt.json, rc)
                 THEN Ev("power_change", i, port, IF rc >= 0 THEN 1 ELSE 0)
                 ELSE NoEv
    /\ UNCHANGED <<envVars, opt, findVars, i, rc, k, should_be_on, repeat, devh, exit_code,
                   gotStatus, onSeen, offSeen, seen, req, nDelay, unsettled>>
    /\ UNCHANGED <<xferFailed, handles, speed>>

(***************************************************************************)
(* main, after the loop over the ports of one hub.                         *)
(***************************************************************************)
\* the extra delay for USB3 hubs
SettleNow(kk, hub) == kk = 0 /\ hub.super_speed # 0

\* an off request was issued to hub h in this phase
OffIssued(h) == \E p \in 1..MaxPorts : req[h][p] = "off"

AfterPorts(kk) ==
    IF ~opt.json THEN "print2"
    ELSE IF kk = 1 /\ opt.reset THEN "reset"
    ELSE "close"

EndPorts ==
    /\ pc = "endports"
    /\ IF SettleNow(k, hubs[i])
       THEN /\ lastEv' = Ev("SLEEP", 0, 0, SETTLE_MS)
            /\ unsettled' = Settled(SETTLE_MS, unsettled)
       ELSE /\ lastEv' = NoEv
            /\ unsettled' = IF hubs[i].super_speed # 0 /\ OffIssued(i)
                            THEN unsettled \cup {i} ELSE unsettled
    /\ pc' = AfterPorts(k)
    /\ UNCHANGED <<envVars, opt, findVars, i, rc, loopVars, exit_code, gotStatus, onSeen,
                   offSeen, seen, req, nDelay, reqlog>>
    /\ UNCHANGED <<xferFailed, handles, speed>>

\* "New status for hub": the listing after the requests
PrintAfter ==
    /\ pc = "print2"
    /\ \E opened \in BOOLEAN : Listing(i, opened)
    /\ pc' = IF k = 1 /\ opt.reset THEN "reset" ELSE "close"
    /\ UNCHANGED <<envVars, opt, findVars, i, rc, loopVars, exit_code, onSeen, offSeen,
                   seen, req, nDelay, unsettled, reqlog>>
    /\ UNCHANGED <<xferFailed, speed>>

\* libusb_reset_device after an on phase
ResetHub ==
    /\ pc = "reset"
    /\ \E r \in TransferResults : rc' = r
    /\ lastEv' = Ev("RESET", i, 0, 0)
    /\ pc' = "close"
    /\ UNCHANGED <<envVars, opt, findVars, i, loopVars, exit_code, sumVars>>

\* libusb_close, next hub
CloseHub ==
    /\ pc = "close"
    /\ devh' = FALSE
    /\ handles' = 0
    /\ i' = i + 1
    /\ pc' = "hub"
    /\ lastEv' = NoEv
    /\ UNCHANGED <<envVars, opt, findVars, rc, k, port, is_on, should_be_on,
                   repeat, exit_code, gotStatus, onSeen, offSeen, seen, req, nDelay,
                   unsettled, reqlog, xferFailed, speed>>

\* a delay taken at the end of both phases
DelaysAfterEach(kk, action) == action = POWER_CYCLE \/ action = POWER_FLASH

\* whether the delay between the phases is taken at the end of phase kk
DelaysAfter(kk, action) == kk = 0 /\ (action = POWER_CYCLE \/ action = POWER_FLASH)

\* sleep_ms((int)(opt_delay * 1000))
DelayMs == opt.delay * 1000

\* the end of the body of the loop over k
Delay ==
    /\ pc = "delay"
    /\ IF DelaysAfter(k, opt.action)
       THEN /\ lastEv' = Ev("SLEEP", 0, 0, DelayMs)
            /\ nDelay' = nDelay + 1
            /\ unsettled' = Settled(DelayMs, unsettled)
       ELSE /\ lastEv' = NoEv
            /\ UNCHANGED <<nDelay, unsettled>>
    /\ k' = k + 1
    /\ pc' = "phase"
    /\ UNCHANGED <<envVars, opt, findVars, i, rc, port, is_on, should_be_on,
                   repeat, devh, exit_code, gotStatus, onSeen, offSeen, seen, req, reqlog>>
    /\ UNCHANGED <<xferFailed, handles, speed>>

(***************************************************************************)
(* Option parsing.  A C string is the sequence of its characters.          *)
(***************************************************************************)
UpperCase == <<"A", "B", "C", "D", "E", "F", "G", "H", "I", "J", "K", "L", "M",
               "N", "O", "P", "Q", "R", "S", "T", "U", "V", "W", "X", "Y", "Z">>
LowerCase == <<"a", "b", "c", "d", "e", "f", "g", "h", "i", "j", "k", "l", "m",
               "n", "o", "p", "q", "r", "s", "t", "u", "v", "w", "x", "y", "z">>

\* tolower
ToLower(c) ==
    IF \E n \in 1..Len(UpperCase) : UpperCase[n] = c
    THEN LowerCase[CHOOSE n \in 1..Len(UpperCase) : UpperCase[n] = c]
    ELSE c

\* strcasecmp(s, t) == 0
StrCaseEq(s, t) == Len(s) = Len(t) /\ \A n \in 1..Len(s) : ToLower(s[n]) = ToLower(t[n])

\* strchr(s + from - 1, c) as an index into s, 0 for NULL
RECURSIVE StrChr(_, _, _)
StrChr(s, from, c) ==
    IF from > Len(s) THEN 0
    ELSE IF s[from] = c THEN from
    ELSE StrChr(s, from + 1, c)

Digits == <<"0", "1", "2", "3", "4", "5", "6", "7", "8", "9">>
IsDigit(c) == \E n \in 1..10 : Digits[n] = c
DigitVal(c) == (CHOOSE n \in 1..10 : Digits[n] = c) - 1

\* the digits atoi reads from position n on, acc being the value so far
RECURSIVE AtoiFrom(_, _, _)
AtoiFrom(s, n, acc) ==
    IF n > Len(s) \/ ~IsDigit(s[n]) THEN acc
    ELSE AtoiFrom(s, n + 1, acc * 10 + DigitVal(s[n]))

\* atoi, for strings without leading white space
Atoi(s) ==
    IF s # << >> /\ s[1] = "-" THEN 0 - AtoiFrom(s, 2, 0)
    ELSE IF s # << >> /\ s[1] = "+" THEN AtoiFrom(s, 2, 0)
    ELSE AtoiFrom(s, 1, 0)

\* a | b
RECURSIVE BitOr(_, _)
BitOr(a, b) ==
    IF a = 0 THEN b
    ELSE IF b = 0 THEN a
    ELSE (IF a % 2 = 1 \/ b % 2 = 1 THEN 1 ELSE 0) + 2 * BitOr(a \div 2, b \div 2)

\* for (i=a; i<=b; i++) ports |= (1 << (i-1))
RECURSIVE OrRange(_, _, _)
OrRange(ports, a, b) ==
    IF a > b THEN ports ELSE OrRange(BitOr(ports, Shl1(a - 1)), a + 1, b)

\* the copy of one list item into buf[8]: at most 7 characters
ItemBuf(portlist, position, comma) ==
    LET last == IF comma # 0 THEN comma - 1 ELSE Len(portlist)
    IN SubSeq(portlist, position, IF last - position + 1 > 7 THEN position + 6 ELSE last)

\* whether an item a-b passes the two tests of ports2bitmap
PortSpecOk(a, b) ==
    /\ ~(a > b)
    /\ ~(a <= 0 \/ a > MAX_HUB_PORTS \/ b <= 0 \/ b > MAX_HUB_PORTS)

\* the loop of ports2bitmap from position on; exit is set where the C code calls exit(1)
RECURSIVE PortsFrom(_, _, _)
PortsFrom(portlist, position, ports) ==
    LET comma == StrChr(portlist, position, ",")
        buf == ItemBuf(portlist, position, comma)
        a == Atoi(buf)
        dash == StrChr(buf, 1, "-")
        b == IF dash # 0 THEN Atoi(SubSeq(buf, dash + 1, Len(buf))) ELSE a
    IN IF ~PortSpecOk(a, b) THEN [exit |-> TRUE, ports |-> 0]
       ELSE IF comma # 0 THEN PortsFrom(portlist, comma + 1, OrRange(ports, a, b))
       ELSE [exit |-> FALSE, ports |-> OrRange(ports, a, b)]

ports2bitmap(portlist) == PortsFrom(portlist, 1, 0)

\* the tokens the -a option knows
ActionNames ==
    << <<"o", "f", "f">>, <<"o", "n">>, <<"c", "y", "c", "l", "e">>,
       <<"t", "o", "g", "g", "l", "e">>, <<"f", "l", "a", "s", "h">> >>

\* opt_action after case 'a', n running over POWER_OFF .. POWER_FLASH
RECURSIVE ActionFrom(_, _, _)
ActionFrom(optarg, n, action) ==
    IF n > POWER_FLASH THEN action
    ELSE ActionFrom(optarg, n + 1,
                    IF StrCaseEq(optarg, ActionNames[n + 1]) \/ optarg = <<Digits[n + 1]>>
                    THEN n ELSE action)

\* the option set before getopt returns its first option
DefaultOpts ==
    [action |-> POWER_KEEP, ports |-> ALL_HUB_PORTS, repeat |-> 1, wait |-> 20, delay |-> 2,
     exact |-> FALSE, reset |-> FALSE, force |-> FALSE, json |-> FALSE, nosysfs |-> FALSE,
     location |-> "", level |-> 0, search |-> << >>]

\* one pass of the getopt loop: the next option of argv is -p or -a
Getopt ==
    /\ pc = "getopt"
    /\ IF argv = << >>
       THEN /\ pc' = "scan"
            /\ UNCHANGED <<argv, opt, exit_code>>
       ELSE LET o == Head(argv)
                bm == ports2bitmap(o.arg)
            IN /\ argv' = Tail(argv)
               /\ IF o.flag = "p"
                  THEN IF StrCaseEq(o.arg, <<"a", "l", "l">>) \/ Len(o.arg) = 0
                       THEN UNCHANGED <<opt, pc, exit_code>>
                       ELSE IF bm.exit
                       THEN pc' = "done" /\ exit_code' = 1 /\ opt' = opt
                       ELSE opt' = [opt EXCEPT !.ports = bm.ports] /\ UNCHANGED <<pc, exit_code>>
                  ELSE /\ opt' = [opt EXCEPT !.action = ActionFrom(o.arg, POWER_OFF, opt.action)]
                       /\ UNCHANGED <<pc, exit_code>>
    /\ lastEv' = NoEv
    /\ UNCHANGED <<usb_devs, is_rpi_4b, is_rpi_5, findVars, i, rc, loopVars, sumVars>>

(***************************************************************************)
(* Specifications.                                                         *)
(***************************************************************************)
Find == ScanDevice \/ ScanEnd \/ PairHub \/ FindCount

Next ==
    \/ Find
    \/ MainCheck
    \/ StatusHub
    \/ PhaseHead
    \/ HubHead
    \/ PrintBefore
    \/ OpenHub
    \/ PortStep
    \/ SetPortStatus
    \/ LibusbXfer
    \/ LibusbWait
    \/ AfterSet
    \/ EndPorts
    \/ PrintAfter
    \/ CloseHub
    \/ Delay

\* a hub device that decodes, on bus b
HubDev(b, bcd, np, ch, cid, ser, path) ==
    [cls |-> "hub", open_rc |-> 0, len |-> minlen, bcd_usb |-> bcd, vendor |-> "05e3:0608",
     bus |-> b, pn |-> path, nports |-> np, chars |-> ch, bos_rc |-> 0, cid |-> cid,
     serial |-> ser, descr |-> <<"h">>, descr_rc |-> 0]

\* device lists of the port-control runs: USB2 and USB3 per-port hubs of one container,
\* without the -R option (ResetHub is left to the runs that give it)
MainDevs(b) == {HubDev(b, bcd, np, 9, "c1", "", << >>) :
                  bcd \in {512, 768}, np \in 1..MaxPorts}

SingleLists == {<<d1>> : d1 \in MainDevs(1)}

PairLists == {<<d1, d2>> : d1 \in MainDevs(1),
                           d2 \in {d \in MainDevs(2) : d.nports = MaxPorts}}

MainOpts ==
    [action : {POWER_KEEP, POWER_OFF, POWER_ON, POWER_CYCLE, POWER_TOGGLE, POWER_FLASH},
     ports : {ALL_HUB_PORTS, 2},
     repeat : 1..MaxRepeat,
     wait : {20},
     delay : {2},
     exact : BOOLEAN,
     reset : {FALSE},
     force : {FALSE},
     json : BOOLEAN,
     nosysfs : BOOLEAN,
     location : {"", "1"},
     level : {0},
     search : {<< >>}]

\* the runs over two hubs keep the default repeat count and the sysfs attempt
PairOpts == {o \in MainOpts : o.repeat = 1 /\ ~o.nosysfs}

Init ==
    \/ InitWith(SingleLists, {FALSE}, {FALSE}, MainOpts)
    \/ InitWith(PairLists, {FALSE}, {FALSE}, PairOpts)

Spec == Init /\ [][Next]_vars

(***************************************************************************)
(* Discovery alone, over a wider choice of devices: usb_find_hubs from its *)
(* first loop to its return value.                                         *)
(***************************************************************************)
NextFind ==
    \/ ScanDevice
    \/ ScanEnd
    \/ PairHub
    \/ FindCount
    \/ MainCheck

\* the devices a host may present at position b of the list (root hubs of bus b
\* unless a path is given)
FindDevs(b) ==
    { HubDev(b, 512, MaxPorts, 9, "c1", "", << >>),
      HubDev(b, 768, MaxPorts, 9, "c1", "", << >>),
      HubDev(b, 768, MaxPorts + 1, 9, "c1", "", << >>),
      HubDev(b, 768, 1, 0, "c1", "", << >>),
      HubDev(b, 768, MaxPorts, 9, "c1", "s1", << >>),
      HubDev(b, 512, MaxPorts, 9, "c1", "s2", << >>),
      HubDev(b, 512, MaxPorts, 0, "c1", "", << >>),
      HubDev(b, 768, MaxPorts, 2, "", "", << >>),
      HubDev(b, 512, MaxPorts, 9, "", "", << >>),
      HubDev(b, 768, MaxPorts, 9, "c1", "", <<1>>),
      [HubDev(b, 512, MaxPorts, 9, "c1", "", << >>) EXCEPT !.open_rc = LIBUSB_ERROR_ACCESS],
      [HubDev(b, 512, MaxPorts, 9, "c1", "", << >>) EXCEPT !.cls = "other"] }

\* the device lists of n devices, the device at position j being on bus j
FindListsOf(n) == {[j \in 1..n |-> [t[j] EXCEPT !.bus = j]] : t \in [1..n -> FindDevs(0)]}

FindOpts ==
    [action : {POWER_KEEP},
     ports : {ALL_HUB_PORTS},
     repeat : {1},
     wait : {20},
     delay : {2},
     exact : BOOLEAN,
     reset : {FALSE},
     force : BOOLEAN,
     json : {FALSE},
     nosysfs : {FALSE},
     location : {"", "1"},
     level : {0},
     search : {<< >>}]

InitFind == \E n \in 1..MaxDevs : InitWith(FindListsOf(n), {FALSE}, {FALSE}, FindOpts)

SpecFind == InitFind /\ [][NextFind]_vars

(***************************************************************************)
(* The port-control runs with the -R option on one hub.                    *)
(***************************************************************************)
ResetOpts == {[o EXCEPT !.reset = TRUE] : o \in {m \in MainOpts : m.location = "" /\ ~m.exact}}

InitReset == InitWith(SingleLists, {FALSE}, {FALSE}, ResetOpts)

NextReset == Next \/ ResetHub

SpecReset == InitReset /\ [][NextReset]_vars

(***************************************************************************)
(* Discovery with more hubs than the hub array holds.  The array of these  *)
(* runs holds HubCap records, in place of the MAX_HUBS of the program.     *)
(***************************************************************************)
CapDevs ==
    { HubDev(0, 512, MaxPorts, 9, "", "", << >>),
      HubDev(0, 768, MaxPorts, 9, "", "", << >>),
      HubDev(0, 512, MaxPorts, 0, "", "", << >>) }

CapListsOf(n) == {[j \in 1..n |-> [t[j] EXCEPT !.bus = j]] : t \in [1..n -> CapDevs]}

CapOpts == {o \in FindOpts : o.location = "" /\ ~o.force}

InitCap == \E n \in 1..(HubCap + 2) : InitWith(CapListsOf(n), {FALSE}, {FALSE}, CapOpts)

NextCap == ScanDeviceCap(HubCap) \/ ScanEnd \/ PairHub \/ FindCount \/ MainCheck

SpecCap == InitCap /\ [][NextCap]_vars

(***************************************************************************)
(* Discovery on hosts with hubs whose hub descriptor read comes back short.*)
(***************************************************************************)
\* what the GET_DESCRIPTOR transfer may return short of minlen: no byte, some
\* bytes, one byte less than needed, or a libusb error
ShortLens == {0, 1, minlen - 1, -1, -7}

ShortDevs ==
    {[HubDev(0, 512, MaxPorts, 9, "", "", << >>) EXCEPT !.len = l] : l \in ShortLens}
    \cup { HubDev(0, 512, MaxPorts, 9, "", "", << >>),
           HubDev(0, 512, MaxPorts, 0, "", "", << >>) }

ShortListsOf(n) == {[j \in 1..n |-> [t[j] EXCEPT !.bus = j]] : t \in [1..n -> ShortDevs]}

ShortOpts == {o \in FindOpts : o.location = ""}

InitShort == \E n \in 1..MaxDevs : InitWith(ShortListsOf(n), {FALSE}, {FALSE}, ShortOpts)

SpecShort == InitShort /\ [][NextFind]_vars

(***************************************************************************)
(* Hosts for the runs with --search: hubs and the devices on their ports.  *)
(***************************************************************************)
\* a device that is not a hub, at the port path of bus b, with its description
PortDev(b, path, descr, drc) ==
    [cls |-> "other", open_rc |-> 0, len |-> 0, bcd_usb |-> 512, vendor |-> "0781:5567",
     bus |-> b, pn |-> path, nports |-> 0, chars |-> 0, bos_rc |-> 0, cid |-> "",
     serial |-> "", descr |-> descr, descr_rc |-> drc]

SearchText == <<"a", "b">>
DescrMatch == <<"x", "a", "b">>
DescrOther == <<"a", "x", "b">>

\* two root hubs, a hub and devices on their ports, a device one level deeper
SearchDevs ==
    { HubDev(1, 512, MaxPorts, 9, "", "", << >>),
      HubDev(1, 512, MaxPorts, 0, "", "", << >>),
      HubDev(2, 512, MaxPorts, 9, "", "", << >>),
      [HubDev(1, 512, MaxPorts, 9, "", "", <<1>>) EXCEPT !.descr = DescrMatch],
      PortDev(1, <<1>>, DescrMatch, 0),
      PortDev(1, <<1>>, DescrOther, 0),
      PortDev(1, <<1>>, DescrMatch, -1),
      PortDev(1, <<2>>, DescrMatch, 0),
      PortDev(1, <<2>>, DescrOther, 0),
      PortDev(2, <<2>>, DescrMatch, 0),
      PortDev(1, <<1, 2>>, DescrMatch, 0) }

\* the lists of n devices, no two of them at the same place
SearchListsOf(n) ==
    {l \in [1..n -> SearchDevs] :
        \A x \in 1..n : \A y \in 1..n :
            (x # y) => (l[x].bus # l[y].bus \/ l[x].pn # l[y].pn)}

SearchOpts ==
    [action : {POWER_KEEP},
     ports : {ALL_HUB_PORTS, 1},
     repeat : {1},
     wait : {20},
     delay : {2},
     exact : {FALSE},
     reset : {FALSE},
     force : {FALSE},
     json : {FALSE},
     nosysfs : {FALSE},
     location : {""},
     level : {0},
     search : {SearchText}]

InitSearch ==
    \E n \in 1..(MaxDevs + 1) : InitWith(SearchListsOf(n), {FALSE}, {FALSE}, SearchOpts)

SpecSearch == InitSearch /\ [][NextFind]_vars

(***************************************************************************)
(* Hosts for the pairing runs: USB2 hubs on bus 1 and USB3 hubs on buses 2 *)
(* and 3 at several port paths, one of them selected by its location.      *)
(***************************************************************************)
PairDevs ==
    { HubDev(1, 512, MaxPorts, 9, "c1", "", << >>),
      HubDev(1, 512, MaxPorts, 9, "c1", "", <<1>>),
      HubDev(1, 512, MaxPorts, 9, "c1", "s1", <<1>>),
      HubDev(1, 512, 1, 9, "c1", "", <<1>>),
      HubDev(2, 768, MaxPorts, 9, "c1", "", << >>),
      HubDev(2, 768, MaxPorts, 9, "c1", "", <<1>>),
      HubDev(2, 768, MaxPorts, 9, "c1", "", <<2>>),
      HubDev(3, 768, MaxPorts, 9, "c1", "", <<1>>),
      HubDev(3, 768, MaxPorts, 9, "c1", "s2", <<2>>),
      HubDev(3, 768, MaxPorts, 9, "c2", "", << >>),
      HubDev(3, 768, MaxPorts + 2, 9, "c1", "", <<1>>) }

\* the lists of n hubs, no two of them at the same place
PairListsOf(n) ==
    {l \in [1..n -> PairDevs] :
        \A x \in 1..n : \A y \in 1..n :
            (x # y) => (l[x].bus # l[y].bus \/ l[x].pn # l[y].pn)}

PairRunOpts ==
    [action : {POWER_KEEP},
     ports : {ALL_HUB_PORTS},
     repeat : {1},
     wait : {20},
     delay : {2},
     exact : {FALSE},
     reset : {FALSE},
     force : {FALSE},
     json : {FALSE},
     nosysfs : {FALSE},
     location : {"1-1", "2"},
     level : {0},
     search : {<< >>}]

InitPair == \E n \in 1..MaxDevs : InitWith(PairListsOf(n), BOOLEAN, {FALSE}, PairRunOpts)

SpecPair == InitPair /\ [][NextFind]_vars

(***************************************************************************)
(* Command lines for the parsing runs.  Each option carries, next to the   *)
(* text handed to getopt, the port items or the token it was written from. *)
(***************************************************************************)
\* the decimal numeral of n
RECURSIVE Fmt(_)
Fmt(n) == IF n < 10 THEN <<Digits[n + 1]>> ELSE Fmt(n \div 10) \o <<Digits[(n % 10) + 1]>>

\* the numeral of n padded with zeros to eight characters
RECURSIVE Wide(_)
Wide(s) == IF Len(s) >= 8 THEN s ELSE Wide(<<"0">> \o s)

PortVals == {0, 1, 3, 5, 14, 15}
WideVals == {1, 123}

PortItems ==
    {[a |-> n, b |-> n, range |-> FALSE, wide |-> FALSE] : n \in PortVals}
    \cup {[a |-> x, b |-> y, range |-> TRUE, wide |-> FALSE] : x \in PortVals, y \in PortVals}
    \cup {[a |-> n, b |-> n, range |-> FALSE, wide |-> TRUE] : n \in WideVals}

ItemText(it) ==
    IF it.wide THEN Wide(Fmt(it.a))
    ELSE IF it.range THEN Fmt(it.a) \o <<"-">> \o Fmt(it.b)
    ELSE Fmt(it.a)

RECURSIVE JoinItems(_)
JoinItems(items) ==
    IF Len(items) = 1 THEN ItemText(items[1])
    ELSE ItemText(items[1]) \o <<",">> \o JoinItems(Tail(items))

PortsOption(items) ==
    [flag |-> "p", arg |-> JoinItems(items), kind |-> "list", items |-> items, known |-> TRUE]

WordOptions ==
    {[flag |-> "p", arg |-> w, kind |-> "word", items |-> << >>, known |-> TRUE] :
        w \in {<<"a", "l", "l">>, <<"A", "L", "L">>, << >>}}

ActionOptions ==
    {[flag |-> "a", arg |-> w, kind |-> "action", items |-> << >>, known |-> TRUE] :
        w \in {<<"o", "f", "f">>, <<"O", "f", "F">>, <<"o", "n">>, <<"c", "y", "c", "l", "e">>,
               <<"t", "o", "g", "g", "l", "e">>, <<"F", "L", "A", "S", "H">>,
               <<"0">>, <<"1">>, <<"2">>, <<"3">>, <<"4">>}}
    \cup {[flag |-> "a", arg |-> w, kind |-> "action", items |-> << >>, known |-> FALSE] :
        w \in {<<"o", "f", "f", "f">>, <<"o">>, <<"5">>, << >>, <<"b", "o", "g", "u", "s">>}}

CmdLinesOf(n) ==
    {<<PortsOption(l)>> : l \in [1..n -> PortItems]}
    \cup {<<o>> : o \in WordOptions \cup ActionOptions}
    \cup {<<o, PortsOption(<<it>>)>> : o \in WordOptions \cup ActionOptions, it \in PortItems}
    \cup {<<PortsOption(<<it>>), o>> : o \in WordOptions \cup ActionOptions, it \in PortItems}

InitParse ==
    \E n \in 1..MaxItems :
        StartState(CmdLinesOf(n), {<< >>}, {FALSE}, {FALSE}, {DefaultOpts}, "getopt")

NextParse == Getopt

SpecParse == InitParse /\ [][NextParse]_vars

(***************************************************************************)
(* Port control with the repeat counts -r accepts: opt_repeat is           *)
(* atoi(optarg), so zero and negative counts reach set_port_status_libusb. *)
(***************************************************************************)
RepeatOpts ==
    [action : {POWER_KEEP, POWER_OFF, POWER_ON, POWER_CYCLE, POWER_TOGGLE, POWER_FLASH},
     ports : {ALL_HUB_PORTS, 2},
     repeat : {-1, 0, MaxRepeat},
     wait : {20},
     delay : {2},
     exact : BOOLEAN,
     reset : {FALSE},
     force : {FALSE},
     json : BOOLEAN,
     nosysfs : BOOLEAN,
     location : {""},
     level : {0},
     search : {<< >>}]

InitRepeat == InitWith(SingleLists, {FALSE}, {FALSE}, RepeatOpts)

SpecRepeat == InitRepeat /\ [][Next]_vars

(***************************************************************************)
(* get_port_speed, applied to a port status word.                          *)
(***************************************************************************)
USB_PORT_STAT_CONNECTION == 1
USB_PORT_STAT_LOW_SPEED == 512
USB_PORT_STAT_HIGH_SPEED == 1024
USB_PORT_STAT_SPEED_MASK == 7168
USB_PORT_STAT_SPEED_5GBPS == 0
USB_PORT_STAT_SPEED_10GBPS == 1024
USB_PORT_STAT_SPEED_20GBPS == 2048
USB_PORT_STAT_SPEED_40GBPS == 3072
USB_PORT_STAT_SPEED_80GBPS == 4096

\* the name and the rate (in 1000 bit/s) of a connected SuperSpeed port:
\* the switch on port_status & USB_PORT_STAT_SPEED_MASK
SuperSpeedOf(speed_mask) ==
    CASE speed_mask = USB_PORT_STAT_SPEED_5GBPS ->
             [speed_str |-> "USB3.0 SuperSpeed 5 Gbps", speed_bps |-> 5000000]
      [] speed_mask = USB_PORT_STAT_SPEED_10GBPS ->
             [speed_str |-> "USB 3.1 Gen 2 SuperSpeed+ 10 Gbps", speed_bps |-> 10000000]
      [] speed_mask = USB_PORT_STAT_SPEED_20GBPS ->
             [speed_str |-> "USB 3.2 Gen 2x2 SuperSpeed+ 20 Gbps", speed_bps |-> 20000000]
      [] speed_mask = USB_PORT_STAT_SPEED_40GBPS ->
             [speed_str |-> "USB4 40 Gbps", speed_bps |-> 40000000]
      [] speed_mask = USB_PORT_STAT_SPEED_80GBPS ->
             [speed_str |-> "USB4 80 Gbps", speed_bps |-> 80000000]
      [] OTHER ->
             [speed_str |-> "USB1.1 Full Speed 12Mbps", speed_bps |-> 12000]

\* the name and the rate of a connected USB 2 port
Usb2SpeedOf(port_status) ==
    IF MaskBits(port_status, USB_PORT_STAT_LOW_SPEED) # 0
    THEN [speed_str |-> "USB1.0 Low Speed 1.5 Mbps", speed_bps |-> 1500]
    ELSE IF MaskBits(port_status, USB_PORT_STAT_HIGH_SPEED) # 0
         THEN [speed_str |-> "USB2.0 High Speed 480Mbps", speed_bps |-> 480000]
         ELSE [speed_str |-> "USB1.1 Full Speed 12Mbps", speed_bps |-> 12000]

\* get_port_speed(port_status, &speed_str, &speed_bps, super_speed)
get_port_speed(port_status, super_speed) ==
    IF MaskBits(port_status, USB_PORT_STAT_CONNECTION) # 0
    THEN IF super_speed
         THEN SuperSpeedOf(MaskBits(port_status, USB_PORT_STAT_SPEED_MASK))
         ELSE Usb2SpeedOf(port_status)
    ELSE [speed_str |-> "Disconnected", speed_bps |-> 0]

\* the call of get_port_speed in create_port_status_json
GetPortSpeed ==
    /\ pc = "speed"
    /\ LET s == get_port_speed(speed.port_status, speed.super_speed)
       IN speed' = [speed EXCEPT !.speed_str = s.speed_str, !.speed_bps = s.speed_bps]
    /\ pc' = "done"
    /\ UNCHANGED <<envVars, opt, findVars, i, rc, loopVars, exit_code, lastEv,
                   gotStatus, onSeen, offSeen, seen, req, nDelay, unsettled, reqlog,
                   xferFailed, handles>>

\* status words: connection, enable, the two power bits, and bits 10-12
SpeedWords ==
    {c + 2 * e + 256 * p + 512 * q + 1024 * s :
        c \in 0..1, e \in 0..1, p \in 0..1, q \in 0..1, s \in 0..7}

SpeedArgs ==
    {[port_status |-> w, super_speed |-> ss, speed_str |-> "", speed_bps |-> 0] :
        w \in SpeedWords, ss \in BOOLEAN}

InitSpeed ==
    StartWith({<< >>}, {<< >>}, {FALSE}, {FALSE}, {DefaultOpts}, "speed", SpeedArgs)

NextSpeed == GetPortSpeed

SpecSpeed == InitSpeed /\ [][NextSpeed]_vars

(***************************************************************************)
(* Properties.                                                             *)
(***************************************************************************)
\* the physical hubs selected by discovery, counted from the hub array
PhysSelected ==
    {h \in 1..hub_count : hubs[h].actionable # 0 /\ (hubs[h].super_speed = 0 \/ opt.exact)}

\* no port of any hub has received a status read or a power request
NoPortTraffic ==
    /\ gotStatus = {}
    /\ onSeen = {}
    /\ offSeen = {}
    /\ lastEv = NoEv

InDiscovery == pc \in {"scan", "pair", "count", "found"}

\* C1: when discovery selects more than one physical hub and a write action is
\* requested, the run ends with exit status 1 and no port of any hub has received
\* a GET_STATUS, SET_FEATURE or CLEAR_FEATURE (nor a sysfs write); discovery itself
\* performs no port transfer.
C1_MultiHubRefusal ==
    /\ InDiscovery => NoPortTraffic
    /\ (~InDiscovery /\ Cardinality(PhysSelected) > 1 /\ opt.action # POWER_KEEP)
         => (pc = "done" /\ exit_code = 1 /\ NoPortTraffic)

\* C1 witness: a cycle over two physical hubs has been refused
C1_Witness ==
    /\ pc = "done"
    /\ exit_code = 1
    /\ opt.action = POWER_CYCLE
    /\ Cardinality(PhysSelected) = 2
    /\ hub_phys_count = 2

\* C2: when a location filter leaves one primary hub H (actionable = 1) and pairing
\* marks a companion P (actionable = 2), the write phase visits both: by the end of
\* a phase every selected port of P has been read wherever H received a request on
\* the port of the same number (unless P could not be opened), and wherever P's
\* port was read in a state other than the one requested of H, P has been issued
\* the same request.
C2_DualPropagation ==
    \A H \in 1..hub_count, P \in 1..hub_count :
        (hubs[H].actionable = 1 /\ hubs[P].actionable = 2)
        => \A p \in 1..hubs[P].nports :
             req[H][p] # "none"
             => /\ pc = "delay" => seen[P][p] # "unread"
                /\ (/\ seen[P][p] \in {"on", "off"}
                    /\ seen[P][p] # req[H][p]
                    /\ ~(pc = "set" /\ i = P /\ port = p))
                   => req[P][p] = req[H][p]

\* C2 witness: an off phase ended with the same port switched off on H and on P
C2_Witness ==
    /\ pc = "delay"
    /\ opt.action = POWER_OFF
    /\ \E H \in 1..hub_count, P \in 1..hub_count :
          /\ hubs[H].actionable = 1
          /\ hubs[P].actionable = 2
          /\ req[H][1] = "off"
          /\ req[P][1] = "off"

\* the transfers and sleeps set_port_status_libusb made in the current request
LibusbPart(log) == IF log # << >> /\ log[1] = "SYSFS_FAIL" THEN Tail(log) ELSE log

\* r CLEAR_FEATURE transfers with a sleep between consecutive ones
OffPattern(log, r) ==
    /\ Len(log) = 2 * r - 1
    /\ \A n \in 1..Len(log) : log[n] = IF n % 2 = 1 THEN "CLEAR_FEATURE" ELSE "SLEEP"

\* C3: an off request that reaches the USB path issues exactly opt_repeat
\* CLEAR_FEATURE transfers, whatever each returns, with a sleep of opt_wait ms between
\* consecutive ones and none after the last; an on request issues exactly one
\* SET_FEATURE and no sleep.
C3_OffRetryBudget ==
    /\ (pc = "event" /\ reqlog # <<"SYSFS_WRITE">>)
         => IF should_be_on
            THEN LibusbPart(reqlog) = <<"SET_FEATURE">>
            ELSE OffPattern(LibusbPart(reqlog), opt.repeat)
    /\ (pc = "libusb" /\ lastEv.ev = "SLEEP") => lastEv.val = opt.wait

\* C3 witness: an off request with repeat 2 completed, its last transfer failing
C3_Witness ==
    /\ pc = "event"
    /\ ~should_be_on
    /\ opt.repeat = 2
    /\ rc < 0
    /\ reqlog = <<"CLEAR_FEATURE", "SLEEP", "CLEAR_FEATURE">>

\* the last step wrote "off" (resp. "on") to a port, by USB or by sysfs
IsOffIO(e) ==
    \/ e.ev = "CLEAR_FEATURE"
    \/ e.ev \in {"SYSFS_WRITE", "SYSFS_FAIL"} /\ e.val = 1
IsOnIO(e) ==
    \/ e.ev = "SET_FEATURE"
    \/ e.ev \in {"SYSFS_WRITE", "SYSFS_FAIL"} /\ e.val = 0

\* an off request is in progress on hub i
OffInProgress == pc \in {"libusb", "wait"} /\ ~should_be_on

\* no off request is made to a hub that has already been issued an on request
OffNeverAfterOn ==
    /\ IsOffIO(lastEv) => lastEv.hub \notin onSeen
    /\ OffInProgress => i \notin onSeen

\* C4 as stated: within one invocation, for any hub, no off request follows an on
\* request to that hub.
C4_OffBeforeOn_AsStated == OffNeverAfterOn

\* C4: for the actions off, on and cycle, no off request is made to a hub that has
\* already been issued an on request (flash turns on first and off second, and
\* toggle mixes both directions in its single pass).
C4_OffBeforeOn ==
    opt.action \in {POWER_OFF, POWER_ON, POWER_CYCLE} => OffNeverAfterOn

\* C4 witness: the on phase of a cycle writes to a hub that was switched off before
C4_Witness ==
    /\ opt.action = POWER_CYCLE
    /\ k = 1
    /\ lastEv.ev = "SET_FEATURE"
    /\ lastEv.hub \in offSeen

\* the last step transferred to a port (a status read or a power request)
IsPortIO(e) == e.ev = "GET_STATUS" \/ IsOffIO(e) \/ IsOnIO(e)

\* the last step was the sleep between the two phases
IsDelaySleep == lastEv.ev = "SLEEP" /\ pc = "phase"

\* C5: under cycle and flash exactly one inter-phase delay of opt_delay * 1000 ms is
\* taken, after every port transfer of the first phase (k = 0) and before any of the
\* second (k = 1); under off, on, toggle and the status-only run no such delay occurs.
C5_InterPhaseDelay ==
    /\ opt.action \in {POWER_CYCLE, POWER_FLASH}
         => /\ nDelay = IF k >= 1 THEN 1 ELSE 0
            /\ (IsPortIO(lastEv) /\ k = 0) => nDelay = 0
            /\ (IsPortIO(lastEv) /\ k = 1) => nDelay = 1
            /\ (pc = "done" /\ exit_code = 0) => nDelay = 1
            /\ IsDelaySleep => (lastEv.val = opt.delay * 1000 /\ k = 1)
    /\ opt.action \notin {POWER_CYCLE, POWER_FLASH}
         => (nDelay = 0 /\ ~IsDelaySleep)

\* C5 witness: a flash ran to its end, with requests in both phases and one delay
C5_Witness ==
    /\ pc = "done"
    /\ exit_code = 0
    /\ opt.action = POWER_FLASH
    /\ nDelay = 1
    /\ onSeen # {}
    /\ offSeen # {}

\* C6 as stated: after the off requests of a phase to a SuperSpeed hub, no GET_STATUS
\* goes to that hub before at least 150 ms have been slept.
C6_SuperSpeedSettle ==
    lastEv.ev = "GET_STATUS" => lastEv.hub \notin unsettled

\* C7: the status-only run issues no power request; off issues no on request and on
\* issues no off request; toggle visits hubs and ports in the first phase only.
C7_RequestKinds ==
    /\ opt.action = POWER_KEEP
         => (onSeen = {} /\ offSeen = {} /\ ~IsOnIO(lastEv) /\ ~IsOffIO(lastEv))
    /\ opt.action = POWER_OFF => (onSeen = {} /\ ~IsOnIO(lastEv))
    /\ opt.action = POWER_ON => (offSeen = {} /\ ~IsOffIO(lastEv))
    /\ opt.action = POWER_TOGGLE
         => /\ IsPortIO(lastEv) => k = 0
            /\ pc \in {"hub", "print1", "open", "port", "set", "libusb", "wait", "event",
                       "endports", "print2", "close", "delay"} => k = 0

\* C7 witness: a toggle ran to its end having switched ports both on and off
C7_Witness ==
    /\ pc = "done"
    /\ exit_code = 0
    /\ opt.action = POWER_TOGGLE
    /\ onSeen # {}
    /\ offSeen # {}

\* a device that decodes as a hub whose descriptor does not report per-port power
\* switching (a single-port ganged hub counts as per-port; on a Raspberry Pi 4B
\* get_hub_info overrides the descriptor of the VIA hub)
NonPppsDevice(dev) ==
    /\ dev.cls = "hub"
    /\ dev.open_rc = 0
    /\ dev.len >= minlen
    /\ dev.chars % 4 # HUB_CHAR_INDV_PORT_LPSM
    /\ ~(dev.chars % 4 = HUB_CHAR_COMMON_LPSM /\ dev.nports = 1)

\* C8: whenever force is not set, no hub whose power switching mode is not per-port
\* is actionable, as a primary or as a derived partner, at any point of discovery,
\* filtering and pairing.
C8_PppsQualification ==
    ~opt.force
    => \A h \in 1..hub_count :
          (\/ hubs[h].lpsm # HUB_CHAR_INDV_PORT_LPSM
           \/ (~is_rpi_4b /\ NonPppsDevice(usb_devs[hubs[h].dev])))
          => hubs[h].actionable = 0

\* C8 witness: discovery ended without force on a list holding a ganged hub, with
\* a primary hub and a derived partner selected
C8_Witness ==
    /\ pc = "found"
    /\ ~opt.force
    /\ \E n \in 1..Len(usb_devs) : NonPppsDevice(usb_devs[n])
    /\ \E a \in 1..hub_count, b \in 1..hub_count :
          hubs[a].actionable = 1 /\ hubs[b].actionable = 2

\* hub b has the container ID of hub a and the opposite speed
SameContainerOtherSpeed(a, b) ==
    /\ a # b
    /\ hubs[a].container_id # ""
    /\ hubs[a].container_id = hubs[b].container_id
    /\ hubs[a].super_speed # hubs[b].super_speed

\* hub b is moreover eligible as the companion of hub a: same number of ports (or
\* at most 3 ports together) and no two differing serial numbers
EligibleCompanion(a, b) ==
    /\ SameContainerOtherSpeed(a, b)
    /\ (hubs[a].nports = hubs[b].nports \/ hubs[a].nports + hubs[b].nports <= 3)
    /\ (hubs[a].serial = "" \/ hubs[b].serial = "" \/ hubs[a].serial = hubs[b].serial)

NoDerivedUnderExact == opt.exact => \A h \in 1..hub_count : hubs[h].actionable # 2

\* C9 as stated: without exact, any hub with the container ID and the opposite speed
\* of a primary hub ends actionable; with exact, no hub is a derived partner.
C9_PairingAndExact_AsStated ==
    /\ (pc = "found" /\ ~opt.exact)
         => \A a \in 1..hub_count, b \in 1..hub_count :
               (hubs[a].actionable = 1 /\ SameContainerOtherSpeed(a, b))
               => hubs[b].actionable # 0
    /\ NoDerivedUnderExact

\* C9: without exact, a primary hub that has eligible companions (same non-empty
\* container ID, opposite speed, compatible port counts, no conflicting serials) ends
\* with at least one of them actionable, so a sole eligible companion is paired;
\* with exact, no hub is a derived partner.
C9_PairingAndExact ==
    /\ (pc = "found" /\ ~opt.exact)
         => \A a \in 1..hub_count :
               (hubs[a].actionable = 1 /\ \E b \in 1..hub_count : EligibleCompanion(a, b))
               => \E b \in 1..hub_count : EligibleCompanion(a, b) /\ hubs[b].actionable # 0
    /\ NoDerivedUnderExact

\* C9 witness: without exact, a filtered-out hub was marked as the partner of a primary
C9_Witness ==
    /\ pc = "found"
    /\ ~opt.exact
    /\ \E a \in 1..hub_count, b \in 1..hub_count :
          /\ hubs[a].actionable = 1
          /\ EligibleCompanion(a, b)
          /\ hubs[b].actionable = 2

\* C10: once discovery has counted, hub_phys_count is the number of actionable hubs
\* that are not SuperSpeed, or of all actionable hubs under exact; a USB2 hub and its
\* USB3 companion count as one.
C10_PhysicalHubCount ==
    pc = "found" => hub_phys_count = Cardinality(PhysSelected)

\* C10 witness: a USB2 primary and its USB3 partner were counted as one physical hub
C10_Witness ==
    /\ pc = "found"
    /\ ~opt.exact
    /\ hub_phys_count = 1
    /\ \E a \in 1..hub_count, b \in 1..hub_count :
          /\ hubs[a].actionable = 1 /\ hubs[a].super_speed = 0
          /\ hubs[b].actionable = 2 /\ hubs[b].super_speed = 1

\* the target of the phase numbered kk, for the actions other than toggle
PhaseTarget(kk) == IF (IF opt.action = POWER_FLASH THEN kk = 0 ELSE kk = 1) THEN "on" ELSE "off"

\* in the phase numbered kk every actionable hub that could be opened had each of
\* its selected ports read and, where the state read was not the target, requested
PhaseComplete(kk) ==
    \A h \in 1..hub_count :
        (hubs[h].actionable # 0 /\ seen[h][1] # "nohandle")
        => \A p \in 1..hubs[h].nports :
              HasPort(opt.ports, p)
              => /\ seen[h][p] \in {"on", "off"}
                 /\ IF opt.action = POWER_TOGGLE
                    THEN req[h][p] \in {"on", "off"} /\ req[h][p] # seen[h][p]
                    ELSE /\ seen[h][p] # PhaseTarget(kk) => req[h][p] = PhaseTarget(kk)
                         /\ seen[h][p] = PhaseTarget(kk) => req[h][p] = "none"

\* C11: once a power control transfer has returned a negative result the run still
\* never ends with a failure code: each phase ends with every selected port of every
\* actionable hub read and, where needed, requested; the last phase of the action is
\* run; and the process exits with code 0.
C11_TransferFailureNonFatal ==
    xferFailed
    => /\ exit_code \in {-1, 0}
       /\ pc = "delay" => PhaseComplete(k)
       /\ pc = "done" => (exit_code = 0 /\ k = 2
                          /\ PhaseComplete(IF opt.action \in {POWER_OFF, POWER_TOGGLE}
                                           THEN 0 ELSE 1))

\* C11 witness: a cycle over a hub with two selected ports ended with exit code 0
\* after a failed transfer, the second phase having requested both ports on
C11_Witness ==
    /\ pc = "done"
    /\ exit_code = 0
    /\ xferFailed
    /\ opt.action = POWER_CYCLE
    /\ \E h \in 1..hub_count : req[h][1] = "on" /\ req[h][2] = "on" /\ h \in offSeen

\* C12 as stated: in JSON mode a power request that ended with a negative result is
\* followed by a power_change event for its hub and port with success false.
C12_JsonFailureReporting ==
    [][(pc = "event" /\ opt.json /\ rc < 0) => lastEv' = Ev("power_change", i, port, 0)]_vars

\* the head of argv is an option the usage rules reject: a port item with a > b
\* or a port outside 1..MAX_HUB_PORTS, or an action token that names no action
NamesBadPort(o) ==
    /\ o.kind = "list"
    /\ \E n \in 1..Len(o.items) :
          \/ o.items[n].a > o.items[n].b
          \/ o.items[n].a \notin 1..MAX_HUB_PORTS
          \/ o.items[n].b \notin 1..MAX_HUB_PORTS
NamesUnknownAction(o) == o.kind = "action" /\ ~o.known
ExitsWithUsageError == pc' = "done" /\ exit_code' = 1 /\ hub_count' = 0 /\ reqlog' = << >>

\* C13: an invalid --ports specification (a > b, or a port outside
\* 1..MAX_HUB_PORTS) or an unknown --action token makes the process exit with
\* code 1 before any discovery or port transfer takes place.
C13_UsageErrorsExitEarly ==
    [][(pc = "getopt" /\ argv # << >>
        /\ (NamesBadPort(Head(argv)) \/ NamesUnknownAction(Head(argv))))
       => ExitsWithUsageError]_vars

\* the part of C13 about --ports alone, for items written in at most seven characters
C13_BadPortsExitEarly ==
    [][(pc = "getopt" /\ argv # << >> /\ NamesBadPort(Head(argv))
        /\ \A n \in 1..Len(Head(argv).items) : ~Head(argv).items[n].wide)
       => ExitsWithUsageError]_vars

\* the mask with bit (p-1) set exactly for the ports p of 1..n named by some item
RECURSIVE NamedBits(_, _)
NamedBits(items, n) ==
    IF n = 0 THEN 0
    ELSE NamedBits(items, n - 1)
         + (IF \E m \in 1..Len(items) : items[m].a <= n /\ n <= items[m].b
            THEN 2 ^ (n - 1) ELSE 0)

\* C14: for every port list made of comma-separated items that are single
\* ports n or ranges a-b with 1 <= a <= b <= 14, ports2bitmap returns the mask
\* with bit (i-1) set exactly for the ports i named by some item; a list with
\* an item with a > b or a port outside 1..14 yields a usage error instead.
C14_Ports2Bitmap ==
    [][(pc = "getopt" /\ argv # << >> /\ Head(argv).kind = "list")
       => IF NamesBadPort(Head(argv))
          THEN pc' = "done" /\ exit_code' = 1
          ELSE pc' = "getopt" /\ exit_code' = -1
               /\ opt'.ports = NamedBits(Head(argv).items, MAX_HUB_PORTS)]_vars

\* the same for port lists whose items are written in at most seven characters
C14_Ports2BitmapShortItems ==
    [][(pc = "getopt" /\ argv # << >> /\ Head(argv).kind = "list"
        /\ \A n \in 1..Len(Head(argv).items) : ~Head(argv).items[n].wide)
       => IF NamesBadPort(Head(argv))
          THEN pc' = "done" /\ exit_code' = 1
          ELSE pc' = "getopt" /\ exit_code' = -1
               /\ opt'.ports = NamedBits(Head(argv).items, MAX_HUB_PORTS)]_vars

\* the physical hubs discovery has kept: actionable and USB2, or any speed under --exact
PhysicalHubs ==
    {h \in 1..hub_count : hubs[h].actionable # 0 /\ (hubs[h].super_speed = 0 \/ opt.exact)}

\* C15: discovery returns the permission error, and the run exits with code 1,
\* exactly when a permission fault was met and no physical hub was kept; with
\* a fault but at least one physical hub, discovery succeeds and main goes on.
C15_PermissionDenied ==
    /\ pc = "found" =>
          /\ rc = LIBUSB_ERROR_ACCESS <=> (perm_ok = 0 /\ PhysicalHubs = {})
          /\ rc # LIBUSB_ERROR_ACCESS => rc = Cardinality(PhysicalHubs)
    /\ (pc = "done" /\ perm_ok = 0 /\ PhysicalHubs = {}) => exit_code = 1
    /\ (pc \notin {"scan", "pair", "count", "found"} /\ perm_ok = 0 /\ PhysicalHubs # {})
          => pc = "status" /\ exit_code = -1 /\ rc = Cardinality(PhysicalHubs)

C15_Witness ==
    /\ pc = "status"
    /\ perm_ok = 0
    /\ PhysicalHubs # {}
    /\ \E n \in 1..Len(usb_devs) : usb_devs[n].cls = "hub" /\ usb_devs[n].open_rc # 0

\* the text t occurs in the description d
Contains(d, t) ==
    \E a \in 1..Len(d) : \A j \in 1..Len(t) : a + j - 1 <= Len(d) /\ d[a + j - 1] = t[j]

\* the device at position n sits on a port of the hub at position h
OnPortOf(n, h) ==
    /\ usb_devs[n].bus = usb_devs[h].bus
    /\ Len(usb_devs[n].pn) = Len(usb_devs[h].pn) + 1
    /\ SubSeq(usb_devs[n].pn, 1, Len(usb_devs[h].pn)) = usb_devs[h].pn

\* the devices on the ports of hub h whose description contains the search text
Matches(h) ==
    {n \in 1..Len(usb_devs) :
        OnPortOf(n, h) /\ usb_devs[n].descr_rc = 0 /\ Contains(usb_devs[n].descr, opt.search)}

\* the devices on the ports of hub h at which the search stops
Stops(h) ==
    {n \in 1..Len(usb_devs) :
        OnPortOf(n, h) /\ (usb_devs[n].descr_rc # 0 \/ Contains(usb_devs[n].descr, opt.search))}

First(S) == CHOOSE n \in S : \A m \in S : n <= m
Last(S) == CHOOSE n \in S : \A m \in S : m <= n
PortOf(n) == usb_devs[n].pn[Len(usb_devs[n].pn)]

\* the scan is at a device that it keeps as a hub while a search text is given
ScansSearchedHub ==
    /\ pc = "scan"
    /\ i <= Len(usb_devs)
    /\ opt.search # << >>
    /\ GetHubInfoRc(usb_devs[i]) = 0
    /\ LpsmOf(usb_devs[i], is_rpi_4b) = HUB_CHAR_INDV_PORT_LPSM \/ opt.force

\* C16 as the spec states it: a match on port c leaves opt_ports with only bit
\* (c-1) set, whatever it was before, and of several matches the last one counts.
C16_SearchNarrowsPorts_AsStated ==
    [][(ScansSearchedHub /\ Matches(i) # {})
       => opt'.ports = 2 ^ (PortOf(Last(Matches(i))) - 1)]_vars

\* C16, as the code has it: the scan of a hub with a matching child on port c
\* leaves in opt_ports bit (c-1) alone if that bit was selected before and
\* nothing otherwise, c being the port of the first child in device-list order
\* that matches, provided no description read failed before it; a hub without
\* such a child leaves opt_ports as it was.
C16_SearchNarrowsPorts ==
    [][(pc = "scan" /\ i <= Len(usb_devs))
       => opt'.ports =
            IF ScansSearchedHub /\ Stops(i) # {} /\ First(Stops(i)) \in Matches(i)
            THEN IF (opt.ports \div (2 ^ (PortOf(First(Stops(i))) - 1))) % 2 = 1
                 THEN 2 ^ (PortOf(First(Stops(i))) - 1)
                 ELSE 0
            ELSE opt.ports]_vars

\* discovery is over, two devices on ports 1 and 2 of one hub matched, port 1 first
C16_Witness ==
    /\ pc = "found"
    /\ opt.search # << >>
    /\ opt.ports = 1
    /\ \E h \in 1..hub_count :
          /\ hubs[h].actionable = 1
          /\ \E n1 \in Matches(hubs[h].dev) : \E n2 \in Matches(hubs[h].dev) :
                n1 < n2 /\ PortOf(n1) = 1 /\ PortOf(n2) = 2

\* the path of hub h, and the path below its first b levels
PathOf(h) == hubs[h].port_numbers
Below(h, b) == SubSeq(PathOf(h), b + 1, Len(PathOf(h)))

\* the score of section 4.6 that candidate b reaches for hub a
PathScore(a, b) ==
    IF PathOf(a) = PathOf(b)
       /\ hubs[a].bus - hubs[a].super_speed = hubs[b].bus - hubs[b].super_speed THEN 5
    ELSE IF PathOf(a) = PathOf(b) THEN 4
    ELSE IF /\ is_rpi_4b
            /\ Len(PathOf(a)) + hubs[a].super_speed = Len(PathOf(b)) + hubs[b].super_speed
            /\ Len(PathOf(a)) >= hubs[b].super_speed
            /\ Below(a, hubs[b].super_speed) = Below(b, hubs[a].super_speed) THEN 3
    ELSE IF Len(PathOf(a)) >= 1 /\ Len(PathOf(a)) = Len(PathOf(b)) /\ Below(a, 1) = Below(b, 1)
    THEN 2
    ELSE 1

\* the eligible candidates for hub a
Eligible(a) == {b \in 1..hub_count : EligibleCompanion(a, b)}

\* C17: after discovery, every hub p with actionable = 2 has a hub q with
\* actionable = 1, the same non-empty container ID and the opposite speed, for
\* which p reaches the maximal score of section 4.6 among the eligible candidates.
C17_DerivedPartner ==
    pc = "found" =>
        \A p \in 1..hub_count :
            hubs[p].actionable = 2 =>
                \E q \in 1..hub_count :
                    /\ hubs[q].actionable = 1
                    /\ hubs[q].container_id # ""
                    /\ hubs[q].container_id = hubs[p].container_id
                    /\ hubs[q].super_speed # hubs[p].super_speed
                    /\ p \in Eligible(q)
                    /\ \A c \in Eligible(q) : PathScore(q, c) <= PathScore(q, p)

\* a derived partner that outscored another eligible candidate of its primary
C17_Witness ==
    /\ pc = "found"
    /\ \E p \in 1..hub_count, q \in 1..hub_count :
          /\ hubs[p].actionable = 2
          /\ hubs[q].actionable = 1
          /\ p \in Eligible(q)
          /\ \E c \in Eligible(q) : c < p /\ PathScore(q, c) < PathScore(q, p)

\* the scores as C18 lists them: 1, 2, 4 and 5
ScoreAsStated(a, b) ==
    IF PathOf(a) = PathOf(b)
       /\ hubs[a].bus - hubs[a].super_speed = hubs[b].bus - hubs[b].super_speed THEN 5
    ELSE IF PathOf(a) = PathOf(b) THEN 4
    ELSE IF Len(PathOf(a)) >= 1 /\ Len(PathOf(a)) = Len(PathOf(b)) /\ Below(a, 1) = Below(b, 1)
    THEN 2
    ELSE 1

\* the pairing pass is at a primary hub
PairsPrimary ==
    /\ pc = "pair"
    /\ i <= hub_count
    /\ hubs[i].actionable = 1
    /\ hubs[i].container_id # ""

\* the hubs after candidate b of the set S was chosen: b is marked 2 if it was not actionable
Marked(S) ==
    IF S = {} THEN hubs
    ELSE [hubs EXCEPT ![First(S)].actionable = IF @ = 0 THEN 2 ELSE @]

\* C18 as stated: the partner chosen for a primary hub is the eligible candidate
\* with the highest of the scores 1, 2, 4, 5, the first found among equals.
C18_PairingChoice_AsStated ==
    [][PairsPrimary
       => hubs' = Marked({b \in Eligible(i) :
                           \A c \in Eligible(i) : ScoreAsStated(i, c) <= ScoreAsStated(i, b)})]_vars

\* C18: the partner chosen for a primary hub (actionable = 1, non-empty
\* container ID) is, among the candidates with opposite speed, equal non-empty
\* container ID, equal nports (or combined nports <= 3) and no conflicting
\* serial, the one with the highest score of section 4.6 (1, 2, 3 on a
\* Raspberry Pi 4B, 4, 5), the first found in discovery order among equals.
C18_PairingChoice ==
    [][PairsPrimary
       => hubs' = Marked({b \in Eligible(i) :
                           \A c \in Eligible(i) : PathScore(i, c) <= PathScore(i, b)})]_vars

\* a partner was chosen as the first of two eligible candidates with the same score
C18_Witness ==
    /\ pc = "found"
    /\ \E q \in 1..hub_count, p \in 1..hub_count, c \in 1..hub_count :
          /\ hubs[q].actionable = 1
          /\ hubs[p].actionable = 2
          /\ hubs[c].actionable = 0
          /\ p \in Eligible(q)
          /\ c \in Eligible(q)
          /\ p < c
          /\ PathScore(q, c) = PathScore(q, p)

\* bit m of the status word v, a failed read (negative) having every bit set
StatusBit(v, m) == IF v < 0 THEN TRUE ELSE (v \div m) % 2 = 1

\* the power state the GET_STATUS of the last step showed for hub h
ReadOn(h) == StatusBit(lastEv.val, IF hubs[h].bcd_usb >= 768 THEN 512 ELSE 256)

\* port p of hub h is one the run operates on
Selected(h, p) == p \in 1..hubs[h].nports /\ (opt.ports \div (2 ^ (p - 1))) % 2 = 1

\* C19: a request is issued to port p only if p <= nports, its bit is set in
\* opt_ports and the state just read (mask 0x0200 on a SuperSpeed hub, 0x0100
\* otherwise) differs from the target; a selected port already in the target
\* state gets no request; under toggle every selected port gets exactly one
\* request, with target = not is_on.
C19_RequestOnlyOnChange ==
    /\ pc = "set" =>
          /\ Selected(i, port)
          /\ lastEv.ev = "GET_STATUS" /\ lastEv.hub = i /\ lastEv.port = port
          /\ is_on = ReadOn(i)
          /\ should_be_on # ReadOn(i)
          /\ opt.action # POWER_TOGGLE => should_be_on = (PhaseTarget(k) = "on")
          /\ req[i][port] = "none"
    /\ \A h \in 1..hub_count : \A p \in 1..MaxPorts :
          req[h][p] # "none" =>
              /\ Selected(h, p)
              /\ seen[h][p] \in {"on", "off"}
              /\ req[h][p] # seen[h][p]
    /\ pc = "endports" =>
          \A p \in 1..hubs[i].nports :
              Selected(i, p) =>
                  /\ seen[i][p] \in {"on", "off"}
                  /\ opt.action = POWER_TOGGLE => req[i][p] \in {"on", "off"}
                  /\ (opt.action # POWER_TOGGLE /\ seen[i][p] = PhaseTarget(k))
                        => req[i][p] = "none"

\* under toggle the second port of a hub is about to get its request, the first has had one
C19_Witness ==
    /\ pc = "set"
    /\ opt.action = POWER_TOGGLE
    /\ port = 2
    /\ req[i][1] # "none"
    /\ is_on /\ ~should_be_on

SysfsSteps == {"SYSFS_WRITE", "SYSFS_FAIL"}

\* C20: for each power request with the sysfs path enabled, the sysfs write
\* is attempted before any control transfer; if it succeeds, no SET_FEATURE or
\* CLEAR_FEATURE transfer is issued for that request and nothing is repeated;
\* if it fails, the control-transfer path is executed for that request.
C20_SysfsFirst ==
    ~opt.nosysfs =>
        /\ pc \in {"libusb", "wait", "event"} =>
              /\ reqlog # << >>
              /\ reqlog[1] \in SysfsSteps
              /\ \A n \in 2..Len(reqlog) : reqlog[n] \notin SysfsSteps
        /\ (pc \in {"libusb", "wait", "event"} /\ reqlog[1] = "SYSFS_WRITE") =>
              /\ reqlog = <<"SYSFS_WRITE">>
              /\ pc = "event"
              /\ rc = 0
        /\ (pc = "event" /\ reqlog[1] = "SYSFS_FAIL") =>
              /\ Len(reqlog) >= 2
              /\ reqlog[2] = (IF should_be_on THEN "SET_FEATURE" ELSE "CLEAR_FEATURE")
              /\ \A n \in 2..Len(reqlog) : reqlog[n] \in {reqlog[2], "SLEEP"}

\* the sysfs write failed and the off request went out as repeated control transfers
C20_Witness ==
    /\ pc = "event"
    /\ ~opt.nosysfs
    /\ Len(reqlog) >= 4
    /\ reqlog[1] = "SYSFS_FAIL"
    /\ reqlog[2] = "CLEAR_FEATURE"
    /\ reqlog[4] = "CLEAR_FEATURE"

\* hub h received an on (off) request in the current phase
OnRequested(h) == \E p \in 1..MaxPorts : req[h][p] = "on"
OffRequested(h) == \E p \in 1..MaxPorts : req[h][p] = "off"

\* C21: with the reset option set, a bus-level reset of a hub is issued only
\* after a phase that turned ports on, and after every such phase; it is never
\* issued after a phase that turned ports off, whatever the action.
C21_ResetPlacement ==
    opt.reset =>
        /\ lastEv.ev = "RESET" =>
              /\ ~OffRequested(lastEv.hub)
              /\ opt.action # POWER_TOGGLE => PhaseTarget(k) = "on"
        /\ (pc = "close" /\ seen[i][1] # "nohandle"
            /\ (OnRequested(i) \/ (opt.action # POWER_TOGGLE /\ PhaseTarget(k) = "on")))
              => lastEv.ev = "RESET"

\* the reset the code does issue: in the second pass of the loop over k, whatever its target
C21_ResetInSecondPass ==
    opt.reset =>
        /\ lastEv.ev = "RESET" => k = 1
        /\ (pc = "close" /\ seen[i][1] # "nohandle") => (lastEv.ev = "RESET" <=> k = 1)

\* C22: for any number of qualifying hubs in the device list, hub_count never
\* exceeds the capacity of the hub array and no record is ever written to the
\* array at an index at or beyond its capacity.
C22_HubArrayCap == hub_count <= HubCap /\ Len(hubs) <= HubCap

\* the first half alone: hub_count stays within the capacity
C22_HubCountCapped == hub_count <= HubCap

\* C23: during the action loop each hub handle is opened, used and closed
\* within that hub's turn: at no point are two handles to the same hub open at
\* the same time, and every opened handle is closed before the next hub is
\* processed.
C23_HandleDiscipline ==
    /\ handles <= 1
    /\ pc \in {"hub", "phase", "delay", "done"} => ~devh

\* the second half alone: main's handle is closed before the next hub
C23_ClosedBeforeNextHub ==
    /\ pc \in {"hub", "phase", "delay", "done", "print1", "open"} => ~devh
    /\ pc \in {"port", "set", "libusb", "wait", "event", "endports", "print2", "reset"} => devh

\* the scan has passed the device at position n
Scanned(n) == n \in 1..Len(usb_devs) /\ (pc # "scan" \/ n < i)

\* the device at position n is a hub that opens and whose hub descriptor read is short
ShortAt(n) ==
    /\ usb_devs[n].cls = "hub"
    /\ usb_devs[n].open_rc = 0
    /\ usb_devs[n].len < 9

\* every record of the hub array was made from a device whose descriptor read was not short
RecordsDecoded ==
    \A h \in 1..hub_count :
        /\ hubs[h].dev \in 1..Len(usb_devs)
        /\ ~ShortAt(hubs[h].dev)

\* C24: for every hub-class device whose class-descriptor read returns fewer
\* than HUB_NONVAR_SIZE + 2 bytes (any short length including 0, or a negative
\* error), decoding fails, no record is created for the device under any
\* option setting (including force), and the permission fault flag is set.
C24_ShortDescriptor ==
    /\ (\E n \in 1..Len(usb_devs) : Scanned(n) /\ ShortAt(n)) => perm_ok = 0
    /\ RecordsDecoded

\* the same for the short reads other than the read of no byte at all
C24_ShortNonEmptyDescriptor ==
    /\ (\E n \in 1..Len(usb_devs) : Scanned(n) /\ ShortAt(n) /\ usb_devs[n].len # 0)
          => perm_ok = 0
    /\ ~opt.force => RecordsDecoded
    /\ (\A n \in 1..Len(usb_devs) : usb_devs[n].len # 0) => RecordsDecoded

\* the device at position n is a hub that decodes and reports ganged power switching
GangedAt(n) ==
    /\ usb_devs[n].cls = "hub"
    /\ usb_devs[n].open_rc = 0
    /\ usb_devs[n].len >= 9
    /\ usb_devs[n].chars % 4 = 0

\* the records of the hub array made from the device at position n
RecordsOf(n) == {h \in 1..hub_count : hubs[h].dev = n}

\* C25: a hub whose descriptor reports ganged switching (LPSM = 00) and one
\* port is classified per-port and becomes actionable with force unset; a
\* ganged hub with more than one port stays ganged and is not actionable
\* without force (outside the Raspberry Pi 4B override).
C25_SinglePortGanged ==
    \A n \in 1..Len(usb_devs) :
        (Scanned(n) /\ GangedAt(n)) =>
            IF usb_devs[n].nports = 1
            THEN /\ RecordsOf(n) # {}
                 /\ \A h \in RecordsOf(n) :
                       /\ hubs[h].lpsm = 1
                       /\ opt.location \in {"", hubs[h].location} => hubs[h].actionable = 1
            ELSE ~is_rpi_4b =>
                 /\ \A h \in RecordsOf(n) : hubs[h].lpsm = 0
                 /\ ~opt.force => \A h \in RecordsOf(n) : hubs[h].actionable = 0

\* without force, a single-port ganged hub is actionable next to a ganged hub of more ports
C25_Witness ==
    /\ pc = "found"
    /\ ~opt.force
    /\ \E n \in 1..Len(usb_devs) :
          GangedAt(n) /\ usb_devs[n].nports = 1 /\ \E h \in RecordsOf(n) : hubs[h].actionable = 1
    /\ \E n \in 1..Len(usb_devs) :
          GangedAt(n) /\ usb_devs[n].nports > 1 /\ RecordsOf(n) = {}

\* bits 10-12 of a status word, as a code 0..7
SpeedCode(w) == (Low16(w) \div 1024) % 8

\* the speed the code of bits 10-12 stands for
StatedSpeed(code) ==
    CASE code = 0 -> "5Gbps"
      [] code = 1 -> "10Gbps"
      [] code = 2 -> "20Gbps"
      [] code = 3 -> "40Gbps"
      [] code = 4 -> "80Gbps"
      [] OTHER -> "Unknown"

\* the speed a decoded name stands for
SpeedNamed(str) ==
    CASE str = "USB3.0 SuperSpeed 5 Gbps" -> "5Gbps"
      [] str = "USB 3.1 Gen 2 SuperSpeed+ 10 Gbps" -> "10Gbps"
      [] str = "USB 3.2 Gen 2x2 SuperSpeed+ 20 Gbps" -> "20Gbps"
      [] str = "USB4 40 Gbps" -> "40Gbps"
      [] str = "USB4 80 Gbps" -> "80Gbps"
      [] str = "USB1.1 Full Speed 12Mbps" -> "12Mbps"
      [] str = "USB1.0 Low Speed 1.5 Mbps" -> "1.5Mbps"
      [] str = "USB2.0 High Speed 480Mbps" -> "480Mbps"
      [] str = "Disconnected" -> "Disconnected"
      [] OTHER -> "Unknown"

\* C26: for every status word of a SuperSpeed hub port, the decoded speed is
\* determined by bits 10-12: 000 = 5Gbps, 001 = 10Gbps, 010 = 20Gbps,
\* 011 = 40Gbps, 100 = 80Gbps, and every other code decodes as Unknown.
C26_SuperSpeedDecoding ==
    (pc = "done" /\ speed.super_speed) =>
        SpeedNamed(speed.speed_str) = StatedSpeed(SpeedCode(speed.port_status))

\* what holds: on a connected SuperSpeed port the codes 000..100 decode as
\* stated; the codes 101, 110 and 111 decode as 12 Mbit/s full speed, and a
\* port without a connection decodes as Disconnected whatever its bits 10-12
C26_ConnectedKnownCodes ==
    (pc = "done" /\ speed.super_speed) =>
        IF MaskBits(speed.port_status, USB_PORT_STAT_CONNECTION) = 0
        THEN speed.speed_str = "Disconnected" /\ speed.speed_bps = 0
        ELSE IF SpeedCode(speed.port_status) <= 4
             THEN SpeedNamed(speed.speed_str) = StatedSpeed(SpeedCode(speed.port_status))
             ELSE SpeedNamed(speed.speed_str) = "12Mbps" /\ speed.speed_bps = 12000

\* discovery has returned, exact is unset, and every actionable hub is SuperSpeed
OnlySuperSpeedSelected ==
    /\ pc \notin {"scan", "pair", "count"}
    /\ ~opt.exact
    /\ \A h \in 1..hub_count : hubs[h].actionable # 0 => hubs[h].super_speed = 1

\* C27: when exact is not set and every hub with actionable != 0 is SuperSpeed,
\* the physical hub count is 0, so the run ends with exit code 1 without any
\* port status read or power request, for every action including keep.
C27_SuperSpeedOnlyFails ==
    OnlySuperSpeedSelected =>
        /\ hub_phys_count = 0
        /\ pc \in {"found", "done"}
        /\ pc = "done" => exit_code = 1
        /\ NoPortTraffic

\* a run on a lone selected USB3 hub has ended with exit code 1
C27_Witness ==
    /\ OnlySuperSpeedSelected
    /\ pc = "done"
    /\ exit_code = 1
    /\ opt.action = POWER_OFF
    /\ opt.location = "1"
    /\ \E h \in 1..hub_count : hubs[h].actionable = 1 /\ hubs[h].super_speed = 1

\* the record the scan loop makes of the device at position n: the decoded
\* descriptor with the flag the filters give it
FilteredAt(n) ==
    LET dev == usb_devs[n]
        decoded == [GetHubInfo(n, dev, is_rpi_4b, is_rpi_5) EXCEPT !.serial = dev.serial]
        c == IF opt.search # << >> THEN SearchFrom(usb_devs, decoded, opt.search, 1) ELSE 0
        info == [decoded EXCEPT !.actionable = IF opt.search # << >> /\ c = 0 THEN 0 ELSE 1]
    IN Filtered(info)

\* once the scan has ended, every record is the one the filters made, but for a
\* flag of 2 where they gave 0
RecordsAsFiltered ==
    pc # "scan" =>
        \A h \in 1..hub_count :
            /\ hubs[h].actionable \in {0, 1, 2}
            /\ hubs[h].actionable = 1 <=> FilteredAt(hubs[h].dev).actionable = 1
            /\ hubs[h].actionable = 2 => FilteredAt(hubs[h].dev).actionable = 0
            /\ [hubs[h] EXCEPT !.actionable = 0] = [FilteredAt(hubs[h].dev) EXCEPT !.actionable = 0]

\* a step of the pairing loop leaves hub_count and every record alone, but for
\* flags it takes from 0 to 2
PairingStepFrame ==
    pc = "pair" =>
        /\ hub_count' = hub_count
        /\ Len(hubs') = Len(hubs)
        /\ \A h \in 1..Len(hubs) :
              \/ hubs'[h] = hubs[h]
              \/ hubs[h].actionable = 0 /\ hubs'[h] = [hubs[h] EXCEPT !.actionable = 2]

\* C28: the pairing step changes only the actionable field and only from 0 to
\* 2; it never changes the flag of a hub that is 1, never clears a flag, and
\* never alters any other field or hub_count, so after discovery every hub has
\* actionable in {0, 1, 2} and the primaries are those the filters produced.
C28_PairingFrame == []RecordsAsFiltered /\ [][PairingStepFrame]_vars

\* pairing has ended with a primary, the dual it marked, and a hub left unmarked
C28_Witness ==
    /\ pc = "count"
    /\ ~opt.exact
    /\ \E a \in 1..hub_count, b \in 1..hub_count, c \in 1..hub_count :
          /\ hubs[a].actionable = 1
          /\ hubs[b].actionable = 2
          /\ b = BestMatch(hubs, hub_count, a, is_rpi_4b)
          /\ hubs[c].actionable = 0

\* the error codes of libusb, LIBUSB_ERROR_IO to LIBUSB_ERROR_NOT_SUPPORTED and
\* LIBUSB_ERROR_OTHER
LibusbErrors == (-13..-1) \cup {-99}

\* the last step was a GET_STATUS that failed
ReadFailed == lastEv.ev = "GET_STATUS" /\ lastEv.val < 0

\* right after a failed read the port counts as powered on, whichever error
\* code the read returned: the loop goes on, to an off request where the target is off or the action is toggle, to the
\* next port where the target is on
FailedReadIsOn ==
    ReadFailed =>
          /\ \A e \in LibusbErrors : IsOn(hubs[lastEv.hub], e)
          /\ seen[lastEv.hub][lastEv.port] = "on"
          /\ exit_code = -1
          /\ lastEv.hub = i
          /\ IF opt.action = POWER_TOGGLE \/ PhaseTarget(k) = "off"
             THEN /\ pc = "set"
                  /\ port = lastEv.port
                  /\ is_on
                  /\ ~should_be_on
             ELSE /\ pc = "port"
                  /\ port = lastEv.port + 1
                  /\ req[i][lastEv.port] = "none"

\* the step after a failed read that calls for a request issues an off request
\* to that port, and no step after a failed read ends the run
OffAfterFailedRead ==
    ReadFailed =>
        /\ pc = "set" => req'[i][port] = "off" /\ offSeen' = offSeen \cup {i}
        /\ pc' # "done"
        /\ exit_code' = exit_code

\* C29: in the action loop, when GET_STATUS for a selected port fails, the port
\* is taken as is_on = true: a step targeting off issues an off request to it,
\* a step targeting on issues no request to it, and toggle issues an off
\* request; the failure itself never stops the loop.
C29_FailedReadPoweredOn == []FailedReadIsOn /\ [][OffAfterFailedRead]_vars

\* under toggle a read has failed and an off request to the port is about to be issued
C29_Witness ==
    /\ ReadFailed
    /\ pc = "set"
    /\ opt.action = POWER_TOGGLE
    /\ is_on
    /\ ~should_be_on
    /\ port = lastEv.port

\* the number of steps named x in the log of the current set_port_status call
CountOf(log, x) == Cardinality({n \in 1..Len(log) : log[n] = x})

\* set_port_status has returned and the sysfs write was not tried or did not succeed
ReturnedPastSysfs == pc = "event" /\ (reqlog = << >> \/ reqlog[1] # "SYSFS_WRITE")

\* with a repeat count of zero or less, an off request returns 0 after no
\* transfer and no sleep, and an on request after one SET_FEATURE and no sleep
NoTransferOnOff ==
    (opt.repeat <= 0 /\ ReturnedPastSysfs) =>
        /\ req[i][port] = (IF should_be_on THEN "on" ELSE "off")
        /\ CountOf(reqlog, "CLEAR_FEATURE") = 0
        /\ CountOf(reqlog, "SLEEP") = 0
        /\ CountOf(reqlog, "SET_FEATURE") = (IF should_be_on THEN 1 ELSE 0)
        /\ ~should_be_on => rc = 0

\* in JSON mode the off request that made no transfer is reported as a
\* power_change event with success true, and the port loop goes on
ReportsSuccess ==
    (opt.repeat <= 0 /\ ReturnedPastSysfs /\ ~should_be_on) =>
        /\ opt.json => lastEv' = Ev("power_change", i, port, 1)
        /\ pc' = "port"
        /\ port' = port + 1

\* C30: with repeat <= 0 and the sysfs path not succeeding, an off request
\* issues zero CLEAR_FEATURE transfers and zero sleeps yet returns success (0),
\* so the port stays powered while JSON mode reports a power_change event with
\* success = true; on requests still issue exactly one SET_FEATURE.
C30_NonPositiveRepeat == []NoTransferOnOff /\ [][ReportsSuccess]_vars

\* JSON mode has reported success for an off request that made no transfer
C30_Witness ==
    /\ opt.repeat <= 0
    /\ opt.json
    /\ opt.nosysfs
    /\ opt.action = POWER_OFF
    /\ pc = "port"
    /\ lastEv.ev = "power_change"
    /\ lastEv.val = 1
    /\ req[lastEv.hub][lastEv.port] = "off"
    /\ seen[lastEv.hub][lastEv.port] = "on"

====
